---- MODULE Spec2Model ----
(***************************************************************************)
(* A model of the retrieval and conversation core of the Starlight backend *)
(* (ChatService, EmbeddingService, SearchService, VideoService).           *)
(*                                                                         *)
(* The module holds several specifications over one set of variables; each *)
(* specification drives one part of the program and leaves the variables   *)
(* of the other parts at their initial values:                             *)
(*   SpecChat  - ChatService with overlapping turns and both stores;       *)
(*               generateResponse is one step (its loop is SpecTurn's).    *)
(*   SpecTurn  - ChatService one turn at a time, with the function-calling *)
(*               loop of generateResponse step by step.                    *)
(*   SpecEmbed   - generateEmbedding: pacing, retries, fallback.           *)
(*   SpecProcess - processScene: generateEmbedding, then storeEmbedding.   *)
(*   SpecIndex   - the embeddings collection: store, delete, search.       *)
(*   SpecVideo   - VideoService: create, process, delete a video.          *)
(*   SpecDelete  - VideoService: deleteVideo while processVideo runs.      *)
(*   SpecPacing  - generateEmbedding called by several callers, in time.   *)
(*   SpecRouter  - SearchService.analyzeQuery.                             *)
(*   SpecSearch  - SearchService.queryScenes and its callers, one call     *)
(*                 over a corpus that may hold dangling references.        *)
(***************************************************************************)
EXTENDS Integers, Sequences, FiniteSets, TLC

(***************************************************************************)
(* Bounds of the model.                                                    *)
(***************************************************************************)
MaxTurns == 2
MaxConvs == 2

(***************************************************************************)
(* Program constants.                                                      *)
(***************************************************************************)
maxIterations == 5
HistoryWindow == 5

NoDoc == [exists |-> FALSE]
None == 0

Turns == 1..MaxTurns
ConvIds == 1..MaxConvs

\* Objects of the JavaScript heap that hold a ChatConversation: the object
\* createConversation builds for conversation c, and the object
\* getConversation builds for turn t from a Firestore document.
ConvObj(c) == c
SnapObj(t) == MaxConvs + t
ObjIds == 1..(MaxConvs + MaxTurns)

\* The text of turn t's user message (every turn sends a text of its own).
TextOf(t) == <<"q", t>>
ModelTexts == {"a1"}
\* What queryScenes can return to retrieveContext: a list of results, each
\* with its scene and its score.
SceneLists ==
  {<<>>, <<[scene |-> "s1", score |-> 1]>>,
   <<[scene |-> "s2", score |-> 2], [scene |-> "s1", score |-> 1]>>}
\* `searchResults.map(result => result.scene)`
ScenesOfResults(searchResults) ==
  [i \in 1..Len(searchResults) |-> searchResults[i].scene]

\* getFunctionDeclarations: the seven declared tools.
DeclaredTools ==
  {"count_campaigns", "list_campaigns", "get_campaign_details",
   "get_campaign_analytics", "search_scenes", "count_videos", "count_scenes"}
\* A name the model may ask for that is not declared.
UndeclaredTools == {"delete_campaign"}
ToolNames == DeclaredTools \cup UndeclaredTools

VARIABLES
  \* ---- ChatService
  gcp,                  \* constructor succeeded: firestore and vertexai are set
  useInMemoryStore,     \* ChatService.useInMemoryStore
  chats,                \* Firestore collection 'chats': id -> document or NoDoc
  inMemoryConversations,\* Map id -> object (None when absent)
  heap,                 \* object -> the messages array of that conversation object
  nextConv,             \* the next conversation id uuidv4 hands out
  tpc, tconv, ttext, tref, tctx, tresp,  \* per turn: sendMessage's frame
  tbefore, toverlap,    \* per turn: history (the list at call time, overlap seen)
  returned,             \* the outcome of the sendMessage that ended last, until the next call
  iteration, contents, pending,  \* per turn: generateResponse's frame
  requests, calls, fed, \* per turn: generateContent requests issued, function
                        \* calls executed, function responses fed back
  epc, etext, retryCount,       \* generateEmbedding's frame
  upstream, succeeded, eresult, \* of the call: requests sent, one answered with
                                \* a vector, what the call returned
  ecalls,                       \* generateEmbedding calls made
  minDelayBetweenRequests, consecutiveRateLimitErrors,
  \* ---- Firestore collection 'embeddings' and the calls on it
  embeddings,           \* document id -> document or NoDoc
  lastOp,               \* the EmbeddingService call on it that returned last
  \* ---- VideoService
  videos, scenes,       \* Firestore collections 'videos' and 'scenes'
  vpc, vnext, vresults, \* per video: processVideo's position, its loop index,
                        \* batchProcessScenes' result map
  vcampaign,            \* per video: processVideo's campaignId argument
  dpc, dsnap, dnext,    \* per video: deleteVideo's position, its scenes
                        \* snapshot, its loop index
  deleted,              \* per video: how the deleteVideo that ended last ended
  \* ---- SearchService.analyzeQuery
  query, strategy,      \* the query given, the strategy returned for it
  \* ---- SearchService.queryScenes and its callers
  searched,             \* the call that returned last: its arguments and outcome
  \* ---- generateEmbedding calls in flight together, on a clock
  now,                  \* Date.now(), in ms since the service was constructed
  lastEmbeddingRequestTime,
  ppc, pretry, pwake,   \* per call: its position, its retryCount, when its timer is due
  sent,                 \* the requests sent to the embeddings endpoint: when, and
                        \* the delay between requests at that time
  settled               \* how the attempt that settled last ended, and what it found

chatVars == <<gcp, useInMemoryStore, chats, inMemoryConversations, heap, nextConv>>
storeVars == <<gcp, useInMemoryStore, chats, inMemoryConversations, nextConv>>
turnVars == <<tpc, tconv, ttext, tref, tctx, tresp, tbefore, toverlap, returned>>
loopVars == <<iteration, contents, pending, requests, calls, fed>>
embedVars == <<epc, etext, retryCount, upstream, succeeded, eresult, ecalls,
               minDelayBetweenRequests, consecutiveRateLimitErrors>>
indexVars == <<embeddings, lastOp>>
videoVars == <<videos, scenes, vpc, vnext, vresults, vcampaign, dpc, dsnap, dnext, deleted>>
routerVars == <<query, strategy>>
searchVars == <<searched>>
pacingVars == <<now, lastEmbeddingRequestTime, ppc, pretry, pwake, sent, settled>>
notChat == <<embedVars, indexVars, videoVars, routerVars, searchVars, pacingVars>>
notEmbed == <<chatVars, turnVars, loopVars, indexVars, videoVars, routerVars, searchVars, pacingVars>>
notIndex == <<chatVars, turnVars, loopVars, embedVars, videoVars, routerVars, searchVars, pacingVars>>
notVideo == <<chatVars, turnVars, loopVars, embedVars, routerVars, searchVars, pacingVars>>
notRouter == <<chatVars, turnVars, loopVars, embedVars, indexVars, videoVars, searchVars, pacingVars>>
notSearch == <<chatVars, turnVars, loopVars, embedVars, routerVars, pacingVars>>
notPacing == <<chatVars, turnVars, loopVars, indexVars, videoVars, routerVars, searchVars>>
vars == <<chatVars, turnVars, loopVars, embedVars, indexVars, videoVars, routerVars,
          searchVars, pacingVars>>

----
(***************************************************************************)
(* ChatService: state after construction.                                  *)
(***************************************************************************)
UserMsg(t, text) == [id |-> <<t, "u">>, role |-> "user", content |-> text, scenes |-> <<>>]
AssistantMsg(t, text, ctx) ==
  [id |-> <<t, "a">>, role |-> "assistant", content |-> text, scenes |-> ctx]

NoCall == [name |-> "", hasArgs |-> FALSE]

NoReturn ==
  [result |-> "none", overlap |-> FALSE, requests |-> 0, calls |-> 0, fed |-> 0,
   lastCall |-> ""]

ChatStart ==
  /\ gcp \in BOOLEAN
  /\ useInMemoryStore = ~gcp
  /\ chats = [c \in ConvIds |-> NoDoc]
  /\ inMemoryConversations = [c \in ConvIds |-> None]
  /\ heap = [o \in ObjIds |-> <<>>]
  /\ nextConv = 1
  /\ tpc = [t \in Turns |-> "idle"]
  /\ tconv = [t \in Turns |-> None]
  /\ ttext = [t \in Turns |-> <<>>]
  /\ tref = [t \in Turns |-> None]
  /\ tctx = [t \in Turns |-> <<>>]
  /\ tresp = [t \in Turns |-> ""]
  /\ returned = NoReturn
  /\ tbefore = [t \in Turns |-> <<>>]
  /\ toverlap = [t \in Turns |-> FALSE]
  /\ iteration = [t \in Turns |-> 0]
  /\ contents = [t \in Turns |-> <<>>]
  /\ pending = [t \in Turns |-> NoCall]
  /\ requests = [t \in Turns |-> 0]
  /\ calls = [t \in Turns |-> 0]
  /\ fed = [t \in Turns |-> 0]

\* `this.useInMemoryStore || !this.firestore`
InMemoryMode == useInMemoryStore \/ ~gcp

InFlight(t) == tpc[t] \notin {"idle", "done"}

\* The messages of conversation c in the store that holds it.
StoredIn(mem, h, docs, c) ==
  IF mem[c] # None THEN h[mem[c]]
  ELSE IF docs[c].exists THEN docs[c].messages
  ELSE <<>>

StoredMessages(c) == StoredIn(inMemoryConversations, heap, chats, c)

\* An object nothing refers to any more is dropped (its slot is cleared).
Collect(h, mem, refs) ==
  [o \in ObjIds |->
     IF (\E c \in ConvIds : mem[c] = o) \/ (\E t \in Turns : refs[t] = o)
     THEN h[o] ELSE <<>>]

\* A turn on conversation c overlaps every other turn in flight on c.
MarkOverlap(t, c) ==
  [u \in Turns |->
     IF u = t THEN \E w \in Turns \ {t} : InFlight(w) /\ tconv[w] = c
     ELSE IF InFlight(u) /\ tconv[u] = c THEN TRUE
     ELSE toverlap[u]]

\* The turn ends: sendMessage returns the assistant message ("ok") or
\* rethrows (the error). Its frame is gone; h and mem are the heap and the
\* map the turn leaves.
Finish(t, res, h, mem) ==
  /\ tpc' = [tpc EXCEPT ![t] = "done"]
  /\ returned' = [result |-> res, overlap |-> toverlap[t],
                  requests |-> requests[t], calls |-> calls[t], fed |-> fed[t],
                  lastCall |-> pending[t].name]
  /\ tref' = [tref EXCEPT ![t] = None]
  /\ tconv' = [tconv EXCEPT ![t] = None]
  /\ ttext' = [ttext EXCEPT ![t] = <<>>]
  /\ tctx' = [tctx EXCEPT ![t] = <<>>]
  /\ tresp' = [tresp EXCEPT ![t] = ""]
  /\ tbefore' = [tbefore EXCEPT ![t] = <<>>]
  /\ toverlap' = [toverlap EXCEPT ![t] = FALSE]
  /\ iteration' = [iteration EXCEPT ![t] = 0]
  /\ contents' = [contents EXCEPT ![t] = <<>>]
  /\ pending' = [pending EXCEPT ![t] = NoCall]
  /\ requests' = [requests EXCEPT ![t] = 0]
  /\ calls' = [calls EXCEPT ![t] = 0]
  /\ fed' = [fed EXCEPT ![t] = 0]
  /\ heap' = Collect(h, mem, tref')

Fail_keepsUserMessage(t, err) ==
  IF tref[t] = None
  THEN Finish(t, err, heap, inMemoryConversations)
  ELSE Finish(t, err, [heap EXCEPT ![tref[t]] = @ \o <<UserMsg(t, ttext[t])>>],
              inMemoryConversations)

\* sendMessage's catch: the turn ends with an error, nothing is stored.
Fail(t, err) == Finish(t, err, heap, inMemoryConversations)

\* The turn goes on to its next await with its frame changed as given.
Goto(t, pc, ref, ctx, resp) ==
  /\ tpc' = [tpc EXCEPT ![t] = pc]
  /\ tref' = [tref EXCEPT ![t] = ref]
  /\ tctx' = [tctx EXCEPT ![t] = ctx]
  /\ tresp' = [tresp EXCEPT ![t] = resp]
  /\ UNCHANGED <<returned, tconv, ttext, tbefore, toverlap>>

(***************************************************************************)
(* createConversation.                                                     *)
(***************************************************************************)
CreateConversation ==
  /\ nextConv <= MaxConvs
  /\ nextConv' = nextConv + 1
  /\ \E writeOk \in BOOLEAN :
       IF InMemoryMode
       THEN /\ inMemoryConversations' =
                 [inMemoryConversations EXCEPT ![nextConv] = ConvObj(nextConv)]
            /\ heap' = [heap EXCEPT ![ConvObj(nextConv)] = <<>>]
            /\ UNCHANGED <<chats, useInMemoryStore>>
       ELSE IF writeOk
       THEN /\ chats' = [chats EXCEPT ![nextConv] = [exists |-> TRUE, messages |-> <<>>]]
            /\ UNCHANGED <<inMemoryConversations, heap, useInMemoryStore>>
       ELSE /\ useInMemoryStore' = TRUE
            /\ inMemoryConversations' =
                 [inMemoryConversations EXCEPT ![nextConv] = ConvObj(nextConv)]
            /\ heap' = [heap EXCEPT ![ConvObj(nextConv)] = <<>>]
            /\ UNCHANGED chats
  /\ UNCHANGED <<gcp, turnVars, loopVars>>
  /\ UNCHANGED notChat

(***************************************************************************)
(* deleteConversation.                                                     *)
(***************************************************************************)
DeleteConversation(c) ==
  /\ c < nextConv
  /\ \E deleteOk \in BOOLEAN :
       \* a call that removes nothing leaves every variable as it is
       /\ IF InMemoryMode \/ ~deleteOk THEN inMemoryConversations[c] # None
                                        ELSE chats[c].exists
       /\ IF InMemoryMode \/ ~deleteOk
          THEN /\ inMemoryConversations' = [inMemoryConversations EXCEPT ![c] = None]
               /\ heap' = Collect(heap, inMemoryConversations', tref)
               /\ UNCHANGED chats
          ELSE /\ chats' = [chats EXCEPT ![c] = NoDoc]
               /\ UNCHANGED <<inMemoryConversations, heap>>
  /\ UNCHANGED <<gcp, useInMemoryStore, nextConv, turnVars, loopVars>>
  /\ UNCHANGED notChat

(***************************************************************************)
(* sendMessage, step by step (one action per await).                       *)
(***************************************************************************)
\* The call, up to getConversation's first await: the in-memory lookup (and
\* sendMessage's `if (!conversation)`), or the Firestore read is issued.
SendMessage(t, c, text) ==
  /\ tpc[t] = "idle"
  /\ \A u \in Turns : u < t => tpc[u] # "idle"
  /\ c < nextConv
  /\ IF InMemoryMode /\ inMemoryConversations[c] = None
     THEN /\ tpc' = [tpc EXCEPT ![t] = "done"]
          /\ returned' = [NoReturn EXCEPT !.result = "Conversation not found",
                            !.overlap = \E w \in Turns : InFlight(w) /\ tconv[w] = c]
          /\ UNCHANGED <<tref, tconv, ttext, tbefore, toverlap>>
     ELSE /\ tpc' = [tpc EXCEPT ![t] = IF InMemoryMode THEN "retrieving" ELSE "reading"]
          /\ tref' = [tref EXCEPT ![t] =
                        IF InMemoryMode THEN inMemoryConversations[c] ELSE None]
          /\ tconv' = [tconv EXCEPT ![t] = c]
          /\ ttext' = [ttext EXCEPT ![t] = text]
          /\ tbefore' = [tbefore EXCEPT ![t] = StoredMessages(c)]
          /\ toverlap' = MarkOverlap(t, c)
          /\ returned' = NoReturn
  /\ UNCHANGED <<chatVars, tctx, tresp, loopVars>>
  /\ UNCHANGED notChat

\* getConversation's Firestore read resolves: the document, no document, or
\* an error (then the in-memory map is consulted).
FirestoreGet(t) ==
  /\ tpc[t] = "reading"
  /\ \E readOk \in BOOLEAN :
       IF readOk /\ chats[tconv[t]].exists
       THEN /\ Goto(t, "retrieving", SnapObj(t), tctx[t], tresp[t])
            /\ heap' = [heap EXCEPT ![SnapObj(t)] = chats[tconv[t]].messages]
            /\ UNCHANGED loopVars
       ELSE IF readOk \/ inMemoryConversations[tconv[t]] = None
       THEN Fail(t, "Conversation not found")
       ELSE /\ Goto(t, "retrieving", inMemoryConversations[tconv[t]], tctx[t], tresp[t])
            /\ UNCHANGED <<heap, loopVars>>
  /\ UNCHANGED storeVars
  /\ UNCHANGED notChat

\* The queryScenes call of retrieveContext has settled: what was asked and
\* what came back (no results when it threw).
Retrieved(t, searchOk, searchResults) ==
  [op |-> "retrieveContext", query |-> ttext[t], options |-> [limit |-> 10],
   ok |-> searchOk, results |-> IF searchOk THEN searchResults ELSE <<>>]

RetrieveContext_rethrows(t) ==
  /\ tpc[t] = "retrieving"
  /\ \E searchOk \in BOOLEAN, searchResults \in SceneLists :
       /\ searched' = Retrieved(t, searchOk, searchResults)
       /\ IF searchOk
          THEN /\ Goto(t, "generating", tref[t], ScenesOfResults(searchResults), tresp[t])
               /\ UNCHANGED <<heap, loopVars>>
          ELSE Fail(t, "queryScenes failed")
  /\ UNCHANGED storeVars
  /\ UNCHANGED <<embedVars, indexVars, videoVars, routerVars, pacingVars>>

\* retrieveContext: the scenes of queryScenes' result, or [] when it throws.
RetrieveContext(t) ==
  /\ tpc[t] = "retrieving"
  /\ \E searchOk \in BOOLEAN, searchResults \in SceneLists :
       /\ searched' = Retrieved(t, searchOk, searchResults)
       /\ Goto(t, "generating", tref[t],
               IF searchOk THEN ScenesOfResults(searchResults) ELSE <<>>, tresp[t])
  /\ UNCHANGED <<chatVars, loopVars>>
  /\ UNCHANGED <<embedVars, indexVars, videoVars, routerVars, pacingVars>>

PushMessages_assistantFirst(msgs, t) ==
  msgs \o <<AssistantMsg(t, tresp[t], tctx[t]), UserMsg(t, ttext[t])>>

PushMessages_userOnly(msgs, t) == msgs \o <<UserMsg(t, ttext[t])>>

\* sendMessage after generateResponse returned: both messages are pushed on
\* the conversation object, then the store is written (in memory at once, in
\* Firestore by an awaited update).
PushMessages(msgs, t) ==
  msgs \o <<UserMsg(t, ttext[t]), AssistantMsg(t, tresp[t], tctx[t])>>

Persist(t) ==
  /\ tpc[t] = "persisting"
  /\ LET pushed == [heap EXCEPT ![tref[t]] = PushMessages(heap[tref[t]], t)] IN
       IF InMemoryMode
       THEN /\ inMemoryConversations' =
                 [inMemoryConversations EXCEPT ![tconv[t]] = tref[t]]
            /\ Finish(t, "ok", pushed, inMemoryConversations')
       ELSE /\ heap' = pushed
            /\ Goto(t, "updating", tref[t], tctx[t], tresp[t])
            /\ UNCHANGED <<inMemoryConversations, loopVars>>
  /\ UNCHANGED <<gcp, useInMemoryStore, chats, nextConv>>
  /\ UNCHANGED notChat

UpdatedMessages_merged(t) ==
  chats[tconv[t]].messages \o SubSeq(heap[tref[t]], Len(heap[tref[t]]) - 1, Len(heap[tref[t]]))

\* `update({messages: conversation.messages, ...})`: the whole list of the
\* turn's conversation object is written over the stored one.
UpdatedMessages(t) == heap[tref[t]]

\* The Firestore update resolves. update() of a missing document rejects.
FirestoreUpdate(t) ==
  /\ tpc[t] = "updating"
  /\ \E writeOk \in BOOLEAN :
       IF writeOk /\ chats[tconv[t]].exists
       THEN /\ chats' = [chats EXCEPT ![tconv[t]].messages = UpdatedMessages(t)]
            /\ UNCHANGED <<useInMemoryStore, inMemoryConversations>>
       ELSE /\ useInMemoryStore' = TRUE
            /\ inMemoryConversations' =
                 [inMemoryConversations EXCEPT ![tconv[t]] = tref[t]]
            /\ UNCHANGED chats
  /\ Finish(t, "ok", heap, inMemoryConversations')
  /\ UNCHANGED <<gcp, nextConv>>
  /\ UNCHANGED notChat

(***************************************************************************)
(* generateResponse as one step: it returns the model's final text or      *)
(* throws (SpecTurn takes its loop step by step and names the errors).     *)
(***************************************************************************)
GenerateResponse(t) ==
  /\ tpc[t] = "generating"
  /\ IF ~gcp
     THEN Fail(t, "Vertex AI not initialized")
     ELSE \/ \E text \in ModelTexts :
               /\ Goto(t, "persisting", tref[t], tctx[t], text)
               /\ UNCHANGED <<heap, loopVars>>
          \/ Fail(t, "Generation failed")
  /\ UNCHANGED storeVars
  /\ UNCHANGED notChat

NextChat ==
  \/ CreateConversation
  \/ \E c \in ConvIds : DeleteConversation(c)
  \/ \E t \in Turns, c \in ConvIds : SendMessage(t, c, TextOf(t))
  \/ \E t \in Turns : FirestoreGet(t)
  \/ \E t \in Turns : RetrieveContext(t)
  \/ \E t \in Turns : GenerateResponse(t)
  \/ \E t \in Turns : Persist(t)
  \/ \E t \in Turns : FirestoreUpdate(t)

(***************************************************************************)
(* generateResponse, step by step.                                         *)
(***************************************************************************)
\* The tools whose handler throws when the argument it needs is missing.
NeedsArgs == {"get_campaign_details", "get_campaign_analytics", "search_scenes"}

\* What generateContent can answer: candidates[0].content.parts holds a
\* functionCall part or not, a (non-empty) text part or not.
Calls == {call \in [name : ToolNames, hasArgs : BOOLEAN] : call.name \in NeedsArgs \/ call.hasArgs}
Responses == [call : {NoCall} \cup Calls, text : {""} \cup ModelTexts]

\* conversationHistory.slice(-5) mapped to its roles.
LastN(seq, n) == SubSeq(seq, IF Len(seq) > n THEN Len(seq) - n + 1 ELSE 1, Len(seq))
HistoryParts(msgs) == [i \in 1..Len(LastN(msgs, HistoryWindow)) |-> LastN(msgs, HistoryWindow)[i].role]

\* generateResponse up to its first await: the availability check, the
\* contents, the first pass of the loop up to generateContent.
GenerateResponseStart(t) ==
  /\ tpc[t] = "generating"
  /\ IF ~gcp
     THEN Fail(t, "Vertex AI not initialized")
     ELSE /\ Goto(t, "requesting", tref[t], tctx[t], tresp[t])
          /\ contents' = [contents EXCEPT ![t] = HistoryParts(heap[tref[t]]) \o <<"user">>]
          /\ iteration' = [iteration EXCEPT ![t] = 1]
          /\ requests' = [requests EXCEPT ![t] = 1]
          /\ UNCHANGED <<heap, pending, calls, fed>>
  /\ UNCHANGED storeVars
  /\ UNCHANGED notChat

\* generateContent resolves (or rejects): a function call is executed, a
\* text ends the loop, anything else throws.
GenerateContentReturns(t) ==
  /\ tpc[t] = "requesting"
  /\ \/ Fail(t, "generateContent failed")
     \/ Fail(t, "No response candidate from Gemini")
     \/ \E r \in Responses :
          IF r.call # NoCall
          THEN /\ Goto(t, "executing", tref[t], tctx[t], tresp[t])
               /\ pending' = [pending EXCEPT ![t] = r.call]
               /\ calls' = [calls EXCEPT ![t] = @ + 1]
               /\ UNCHANGED <<heap, iteration, contents, requests, fed>>
          ELSE IF r.text # ""
          THEN /\ Goto(t, "persisting", tref[t], tctx[t], r.text)
               /\ UNCHANGED <<heap, loopVars>>
          ELSE Fail(t, "No function call or text in response")
  /\ UNCHANGED storeVars
  /\ UNCHANGED notChat

ExecuteFunction_runsAnyName(call, collaboratorOk) ==
  IF call.name \in NeedsArgs /\ ~call.hasArgs THEN "Function failed"
  ELSE IF ~collaboratorOk THEN "Function failed"
  ELSE "ok"

\* executeFunction's switch: does the call return a result?
ExecuteFunction(call, collaboratorOk) ==
  IF call.name \notin DeclaredTools THEN "Unknown function"
  ELSE IF call.name \in NeedsArgs /\ ~call.hasArgs THEN "Function failed"
  ELSE IF ~collaboratorOk THEN "Function failed"
  ELSE "ok"

LoopContinues_oneMore(i) == i <= maxIterations

\* `while (iteration < maxIterations)`
LoopContinues(i) == i < maxIterations

\* executeFunction resolves (or rejects); on a result the call and the
\* response are pushed on contents and the loop goes round: the next
\* generateContent request, or the bound.
ExecuteFunctionReturns(t) ==
  /\ tpc[t] = "executing"
  /\ \E collaboratorOk \in BOOLEAN :
       LET outcome == ExecuteFunction(pending[t], collaboratorOk) IN
         IF outcome # "ok"
         THEN Fail(t, outcome)
         ELSE IF LoopContinues(iteration[t])
         THEN /\ Goto(t, "requesting", tref[t], tctx[t], tresp[t])
              /\ contents' = [contents EXCEPT ![t] = @ \o <<"model", "function">>]
              /\ fed' = [fed EXCEPT ![t] = @ + 1]
              /\ iteration' = [iteration EXCEPT ![t] = @ + 1]
              /\ requests' = [requests EXCEPT ![t] = @ + 1]
              /\ UNCHANGED <<heap, pending, calls>>
         ELSE /\ tpc' = [tpc EXCEPT ![t] = "done"]
              /\ returned' = [result |-> "Maximum function call iterations reached",
                              overlap |-> toverlap[t], requests |-> requests[t],
                              calls |-> calls[t], fed |-> fed[t] + 1,
                              lastCall |-> pending[t].name]
              /\ tref' = [tref EXCEPT ![t] = None]
              /\ tconv' = [tconv EXCEPT ![t] = None]
              /\ ttext' = [ttext EXCEPT ![t] = <<>>]
              /\ tctx' = [tctx EXCEPT ![t] = <<>>]
              /\ tresp' = [tresp EXCEPT ![t] = ""]
              /\ tbefore' = [tbefore EXCEPT ![t] = <<>>]
              /\ toverlap' = [toverlap EXCEPT ![t] = FALSE]
              /\ iteration' = [iteration EXCEPT ![t] = 0]
              /\ contents' = [contents EXCEPT ![t] = <<>>]
              /\ pending' = [pending EXCEPT ![t] = NoCall]
              /\ requests' = [requests EXCEPT ![t] = 0]
              /\ calls' = [calls EXCEPT ![t] = 0]
              /\ fed' = [fed EXCEPT ![t] = 0]
              /\ heap' = Collect(heap, inMemoryConversations, tref')
  /\ UNCHANGED storeVars
  /\ UNCHANGED notChat

\* One turn at a time: a sendMessage call is made when none is in flight.
SendMessageAlone(t, c, text) ==
  /\ \A u \in Turns : ~InFlight(u)
  /\ SendMessage(t, c, text)

NextTurn ==
  \/ CreateConversation
  \/ \E t \in Turns, c \in ConvIds : SendMessageAlone(t, c, TextOf(t))
  \/ \E t \in Turns : FirestoreGet(t)
  \/ \E t \in Turns : RetrieveContext(t)
  \/ \E t \in Turns : GenerateResponseStart(t)
  \/ \E t \in Turns : GenerateContentReturns(t)
  \/ \E t \in Turns : ExecuteFunctionReturns(t)
  \/ \E t \in Turns : Persist(t)
  \/ \E t \in Turns : FirestoreUpdate(t)

(***************************************************************************)
(* Strings are sequences of characters.                                    *)
(***************************************************************************)
IsSpace(ch) == ch \in {" ", "\t", "\n"}

\* String.prototype.toLowerCase, on the letters the queries use.
LowerChar(ch) ==
  CASE ch = "C" -> "c" [] ch = "E" -> "e" [] ch = "I" -> "i" [] ch = "D" -> "d"
    [] ch = "S" -> "s" [] ch = "A" -> "a" [] ch = "T" -> "t" [] ch = "V" -> "v"
    [] ch = "M" -> "m" [] ch = "P" -> "p" [] OTHER -> ch
toLowerCase(str) == [i \in 1..Len(str) |-> LowerChar(str[i])]

\* String.prototype.split(/\s+/): the pieces between the maximal runs of
\* whitespace, the empty piece before a leading run and after a trailing one
\* included.
RECURSIVE SkipSpaces(_, _)
SkipSpaces(str, i) ==
  IF i <= Len(str) /\ IsSpace(str[i]) THEN SkipSpaces(str, i + 1) ELSE i

\* The pieces from position i on: the piece that starts at i runs up to the
\* next whitespace (or the end), the next one starts after that run.
RECURSIVE SplitFrom(_, _)
SplitFrom(str, i) ==
  LET ends == {k \in i..(Len(str) + 1) : k = Len(str) + 1 \/ IsSpace(str[k])}
      end == CHOOSE k \in ends : \A m \in ends : k <= m
      piece == SubSeq(str, i, end - 1)
  IN IF end > Len(str) THEN <<piece>>
     ELSE <<piece>> \o SplitFrom(str, SkipSpaces(str, end))

split(str) == SplitFrom(str, 1)

\* String.prototype.trim
RECURSIVE TrimEnd(_)
TrimEnd(str) ==
  IF str # <<>> /\ IsSpace(str[Len(str)]) THEN TrimEnd(SubSeq(str, 1, Len(str) - 1)) ELSE str

trim(str) == TrimEnd(SubSeq(str, SkipSpaces(str, 1), Len(str)))

\* Array.prototype.join
RECURSIVE join(_, _)
join(parts, separator) ==
  IF parts = <<>> THEN <<>>
  ELSE IF Len(parts) = 1 THEN parts[1]
  ELSE parts[1] \o separator \o join(Tail(parts), separator)

\* String.prototype.charCodeAt on the characters the embedded texts use.
charCodeAt(ch) == CASE ch = "a" -> 97 [] ch = "b" -> 98 [] ch = "c" -> 99 [] OTHER -> 32

(***************************************************************************)
(* EmbeddingService.generateEmbedding and its fallback.                    *)
(***************************************************************************)
maxRetries == 3
dimension == 768
MinDelayFloor == 1000
MinDelayCeiling == 10000

MaxEmbedCalls == 2
EmbedTexts == {<<>>, <<"a">>, <<"a", " ", "b">>, <<"A", " ", "a">>}
\* A vector of numbers is its length and its entries that are not 0, by
\* position (from 0).
\* The vectors the embeddings endpoint answers with. The length is the one
\* of the model EMBEDDING_MODEL names; the code takes any that is not 0.
ApiVectors == {[length |-> 768, weights |-> (0 :> 1)],
               [length |-> 768, weights |-> (0 :> 1 @@ 1 :> 2)],
               [length |-> 3, weights |-> (0 :> 1)]}

\* simpleHash's loop. `hash << 5` and `hash & hash` wrap at 32 bits; the words
\* of EmbedTexts are shorter than 6 characters, so that no value reaches 2^31
\* and the wrap leaves every value as it is.
RECURSIVE HashFrom(_, _, _)
HashFrom(str, i, hash) ==
  IF i > Len(str) THEN hash
  ELSE HashFrom(str, i + 1, (hash * 32 - hash) + charCodeAt(str[i]))

simpleHash(str) == LET h == HashFrom(str, 1, 0) IN IF h < 0 THEN -h ELSE h

RECURSIVE Factorial(_)
Factorial(n) == IF n <= 1 THEN 1 ELSE n * Factorial(n - 1)

RECURSIVE SumOver(_, _)
SumOver(S, f) ==
  IF S = {} THEN 0 ELSE LET x == CHOOSE y \in S : TRUE IN f[x] + SumOver(S \ {x}, f)

\* generateFallbackEmbedding. The vector it returns is `weights` divided by
\* its magnitude: weights[p] is the sum the loop leaves at position p, times
\* Factorial(number of words) so that it is an integer; the positions that
\* are not in its domain hold 0.
generateFallbackEmbedding(text) ==
  LET words == split(toLowerCase(text))
      n == Len(words)
      Pos(idx, i) == (simpleHash(words[idx]) + i * 97) % dimension
      touched == {Pos(idx, i) : idx \in 1..n, i \in 0..9}
      At(p) == SumOver({idx \in 1..n : \E i \in 0..9 : Pos(idx, i) = p},
                       [idx \in 1..n |-> Factorial(n) \div idx])
  IN [length |-> dimension, weights |-> [p \in touched |-> At(p)]]

NoVector == [length |-> 0, weights |-> [p \in {} |-> 0]]

EmbedStart ==
  /\ epc = "idle"
  /\ etext = <<>>
  /\ retryCount = 0
  /\ upstream = 0
  /\ succeeded = FALSE
  /\ eresult = NoVector
  /\ ecalls = 0
  /\ minDelayBetweenRequests = [n |-> MinDelayFloor, d |-> 1]
  /\ consecutiveRateLimitErrors = 0

RECURSIVE Gcd(_, _)
Gcd(a, b) == IF b = 0 THEN a ELSE Gcd(b, a % b)
Reduced(n, d) == [n |-> n \div Gcd(n, d), d |-> d \div Gcd(n, d)]

DelayDoubled_uncapped(delay) == Reduced(2 * delay.n, delay.d)

\* Math.min(10000, delay * 2)
DelayDoubled(delay) ==
  IF 2 * delay.n >= MinDelayCeiling * delay.d THEN [n |-> MinDelayCeiling, d |-> 1]
  ELSE Reduced(2 * delay.n, delay.d)

\* `if (delay > 1000) delay = Math.max(1000, delay * 0.9)`
DelayReduced(delay) ==
  IF delay.n <= MinDelayFloor * delay.d THEN delay
  ELSE IF 9 * delay.n <= MinDelayFloor * 10 * delay.d THEN [n |-> MinDelayFloor, d |-> 1]
  ELSE Reduced(9 * delay.n, 10 * delay.d)

\* The entry of generateEmbedding(text, retry): the pacing wait is taken
\* (timeSinceLastRequest < minDelayBetweenRequests) or not.
Enter(text, retry) ==
  /\ etext' = text
  /\ retryCount' = retry
  /\ \E mustWait \in BOOLEAN : epc' = IF mustWait THEN "pacing" ELSE "auth"

\* A call from outside: generateEmbedding(text).
GenerateEmbedding(text) ==
  /\ epc \in {"idle", "done"}
  /\ ecalls < MaxEmbedCalls
  /\ ecalls' = ecalls + 1
  /\ Enter(text, 0)
  /\ upstream' = 0
  /\ succeeded' = FALSE
  /\ eresult' = NoVector
  /\ UNCHANGED <<minDelayBetweenRequests, consecutiveRateLimitErrors>>
  /\ UNCHANGED notEmbed

\* The pacing timer fires.
PacingWaitEnds ==
  /\ epc = "pacing"
  /\ epc' = "auth"
  /\ UNCHANGED <<etext, retryCount, upstream, succeeded, eresult, ecalls,
                 minDelayBetweenRequests, consecutiveRateLimitErrors>>
  /\ UNCHANGED notEmbed

Catch_oneMoreRetry(is429) ==
  /\ IF is429
     THEN /\ consecutiveRateLimitErrors' = consecutiveRateLimitErrors + 1
          /\ minDelayBetweenRequests' = DelayDoubled(minDelayBetweenRequests)
     ELSE UNCHANGED <<minDelayBetweenRequests, consecutiveRateLimitErrors>>
  /\ IF is429 /\ retryCount <= maxRetries
     THEN /\ epc' = "backoff"
          /\ UNCHANGED eresult
     ELSE /\ epc' = "done"
          /\ eresult' = generateFallbackEmbedding(etext)
  /\ UNCHANGED <<etext, retryCount, succeeded, ecalls>>

Catch_retriesEveryError(is429) ==
  /\ IF is429
     THEN /\ consecutiveRateLimitErrors' = consecutiveRateLimitErrors + 1
          /\ minDelayBetweenRequests' = DelayDoubled(minDelayBetweenRequests)
     ELSE UNCHANGED <<minDelayBetweenRequests, consecutiveRateLimitErrors>>
  /\ IF retryCount < maxRetries
     THEN /\ epc' = "backoff"
          /\ UNCHANGED eresult
     ELSE /\ epc' = "done"
          /\ eresult' = generateFallbackEmbedding(etext)
  /\ UNCHANGED <<etext, retryCount, succeeded, ecalls>>

\* `const backoffMs = Math.pow(2, retryCount) * 3000`
backoffMs(retry) == (2 ^ retry) * 3000

\* The catch block: an error whose message names a rate limit is retried
\* after a backoff while retryCount < maxRetries; every other error, and the
\* rate limit after the last retry, ends the call with the fallback embedding.
Catch(is429) ==
  /\ IF is429
     THEN /\ consecutiveRateLimitErrors' = consecutiveRateLimitErrors + 1
          /\ minDelayBetweenRequests' = DelayDoubled(minDelayBetweenRequests)
     ELSE UNCHANGED <<minDelayBetweenRequests, consecutiveRateLimitErrors>>
  /\ IF is429 /\ retryCount < maxRetries
     THEN /\ epc' = "backoff"
          /\ UNCHANGED eresult
     ELSE /\ epc' = "done"
          /\ eresult' = generateFallbackEmbedding(etext)
  /\ UNCHANGED <<etext, retryCount, succeeded, ecalls>>

\* getClient / getAccessToken settle: the request is sent, or they throw.
AuthReturns ==
  /\ epc = "auth"
  /\ \/ /\ epc' = "fetching"
        /\ upstream' = upstream + 1
        /\ UNCHANGED <<etext, retryCount, succeeded, eresult, ecalls,
                       minDelayBetweenRequests, consecutiveRateLimitErrors>>
     \/ /\ \E is429 \in BOOLEAN : Catch(is429)
        /\ UNCHANGED upstream
  /\ UNCHANGED notEmbed

\* The request settles: a vector, a response without one, an error status
\* or a network error (whose text names a rate limit or does not).
FetchReturns ==
  /\ epc = "fetching"
  /\ \/ \E vector \in ApiVectors :
          /\ epc' = "done"
          /\ eresult' = vector
          /\ succeeded' = TRUE
          /\ consecutiveRateLimitErrors' = 0
          /\ minDelayBetweenRequests' = DelayReduced(minDelayBetweenRequests)
          /\ UNCHANGED <<etext, retryCount, ecalls>>
     \/ \E is429 \in BOOLEAN : Catch(is429)
  /\ UNCHANGED upstream
  /\ UNCHANGED notEmbed

\* The backoff timer fires: `return this.generateEmbedding(text, retryCount + 1)`.
BackoffEnds ==
  /\ epc = "backoff"
  /\ Enter(etext, retryCount + 1)
  /\ UNCHANGED <<upstream, succeeded, eresult, ecalls,
                 minDelayBetweenRequests, consecutiveRateLimitErrors>>
  /\ UNCHANGED notEmbed

EmbedStep == PacingWaitEnds \/ AuthReturns \/ FetchReturns \/ BackoffEnds

NextEmbed ==
  \/ \E text \in EmbedTexts : GenerateEmbedding(text)
  \/ PacingWaitEnds
  \/ AuthReturns
  \/ FetchReturns
  \/ BackoffEnds

(***************************************************************************)
(* The embeddings collection: storeEmbedding, deleteEmbedding,             *)
(* cosineSimilarity, searchSimilarEmbeddings.                              *)
(***************************************************************************)
MaxStoredScenes == 2

\* `${videoId}_scene_${sceneNumber}`
SceneId(v, n) == <<v, n>>
\* The scenes storeEmbedding is called for: scenes of one video.
StoredSceneIds == {SceneId(1, n) : n \in 1..MaxStoredScenes}

\* `emb_${sceneId}`
EmbeddingId(sceneId) == <<"emb", sceneId>>

Campaigns == {"c1", "c2"}
NoCampaign == ""
\* The vectors stored and searched for: entries at positions 0 and 1.
Vec(x, y) == [length |-> 2, weights |-> (0 :> x @@ 1 :> y)]
StoredVectors == {Vec(1, 0), Vec(1, 1), Vec(0, 0)}
QueryVectors == {Vec(1, 0), Vec(-1, 1), [length |-> 3, weights |-> (0 :> 1)]}
Limits == {1, 2}
\* minSimilarity 0.0 and 0.5, as similarities (see cosineSimilarity)
Thresholds == {[n |-> 0, d |-> 1], [n |-> 1, d |-> 4]}

NoOp == [op |-> "none"]

IndexStart ==
  /\ embeddings = [id \in {EmbeddingId(sceneId) : sceneId \in StoredSceneIds} |-> NoDoc]
  /\ lastOp = NoOp

StoreEmbedding_keepsFirst(sceneId, embedding, metadata) ==
  /\ \E setOk \in BOOLEAN :
       /\ embeddings' =
            IF setOk /\ ~embeddings[EmbeddingId(sceneId)].exists
            THEN [embeddings EXCEPT ![EmbeddingId(sceneId)] =
                    [exists |-> TRUE, sceneId |-> sceneId, embedding |-> embedding,
                     metadata |-> metadata, dimension |-> embedding.length]]
            ELSE embeddings
       /\ lastOp' = [op |-> "storeEmbedding", ok |-> setOk, sceneId |-> sceneId,
                     embedding |-> embedding, metadata |-> metadata,
                     replaced |-> embeddings[EmbeddingId(sceneId)].exists]
  /\ UNCHANGED notIndex

\* storeEmbedding: doc(embeddingId).set(...) resolves, or it rejects and the
\* call throws 'Embedding storage failed'. (lastOp.replaced: the scene had a
\* document when the call was made.)
StoreEmbedding(sceneId, embedding, metadata) ==
  /\ \E setOk \in BOOLEAN :
       /\ embeddings' =
            IF setOk
            THEN [embeddings EXCEPT ![EmbeddingId(sceneId)] =
                    [exists |-> TRUE, sceneId |-> sceneId, embedding |-> embedding,
                     metadata |-> metadata, dimension |-> embedding.length]]
            ELSE embeddings
       /\ lastOp' = [op |-> "storeEmbedding", ok |-> setOk, sceneId |-> sceneId,
                     embedding |-> embedding, metadata |-> metadata,
                     replaced |-> embeddings[EmbeddingId(sceneId)].exists]
  /\ UNCHANGED notIndex

\* deleteEmbedding
DeleteEmbedding(embeddingId) ==
  /\ \E deleteOk \in BOOLEAN :
       /\ embeddings' = IF deleteOk THEN [embeddings EXCEPT ![embeddingId] = NoDoc]
                                     ELSE embeddings
       /\ lastOp' = [op |-> "deleteEmbedding", ok |-> deleteOk, embeddingId |-> embeddingId]
  /\ UNCHANGED notIndex

\* The sum of f over the positions in S.
RECURSIVE SumAt(_, _)
SumAt(S, f) ==
  IF S = {} THEN 0 ELSE LET p == CHOOSE q \in S : TRUE IN f[p] + SumAt(S \ {p}, f)

Square(a) == [p \in DOMAIN a.weights |-> a.weights[p] * a.weights[p]]

\* cosineSimilarity's first statement: `if (a.length !== b.length) throw`.
LengthMismatch_prefixOnly(a, b) == FALSE

LengthMismatch(a, b) == a.length # b.length

\* cosineSimilarity(a, b) for vectors of one length. The value is
\* n / sqrt(d): n is dotProduct, d is the product of the two sums of squares
\* (the squared magnitudes); a zero magnitude gives 0.
cosineSimilarity(a, b) ==
  LET common == DOMAIN a.weights \cap DOMAIN b.weights
      dotProduct == SumAt(common, [p \in common |-> a.weights[p] * b.weights[p]])
      magnitudeA == SumAt(DOMAIN a.weights, Square(a))
      magnitudeB == SumAt(DOMAIN b.weights, Square(b))
  IN IF magnitudeA = 0 \/ magnitudeB = 0 THEN [n |-> 0, d |-> 1]
     ELSE [n |-> dotProduct, d |-> magnitudeA * magnitudeB]

\* x < y for similarities x, y (each n / sqrt(d), d > 0).
SimLess(x, y) ==
  IF x.n < 0 /\ y.n >= 0 THEN TRUE
  ELSE IF x.n >= 0 /\ y.n < 0 THEN FALSE
  ELSE IF x.n >= 0 THEN x.n * x.n * y.d < y.n * y.n * x.d
  ELSE x.n * x.n * y.d > y.n * y.n * x.d

\* The document ids of a collection in their order (of the video, then of
\* the scene number).
RECURSIVE InOrder(_)
InOrder(ids) ==
  IF ids = {} THEN <<>>
  ELSE LET first == CHOOSE x \in ids : \A y \in ids :
                      \/ x[2][1] < y[2][1]
                      \/ x[2][1] = y[2][1] /\ x[2][2] <= y[2][2]
       IN <<first>> \o InOrder(ids \ {first})

\* The documents of the query's snapshot, in document-id order.
SnapshotDocs(docs, campaignId) ==
  LET all == [i \in 1..Cardinality(DOMAIN docs) |-> docs[InOrder(DOMAIN docs)[i]]]
      Matches(doc) == /\ doc.exists
                      /\ campaignId # NoCampaign => doc.metadata.campaignId = campaignId
  IN SelectSeq(all, Matches)

SortDescending_ascending(results) ==
  LET RECURSIVE Insert(_, _)
      Insert(sorted, r) ==
        IF sorted = <<>> THEN <<r>>
        ELSE IF SimLess(r.similarity, Head(sorted).similarity) THEN <<r>> \o sorted
        ELSE <<Head(sorted)>> \o Insert(Tail(sorted), r)
      RECURSIVE Sort(_, _)
      Sort(sorted, rest) ==
        IF rest = <<>> THEN sorted ELSE Sort(Insert(sorted, Head(rest)), Tail(rest))
  IN Sort(<<>>, results)

\* results.sort((a, b) => b.similarity - a.similarity): Array.prototype.sort
\* is stable, entries of equal similarity keep their order.
SortDescending(results) ==
  LET RECURSIVE Insert(_, _)
      Insert(sorted, r) ==
        IF sorted = <<>> THEN <<r>>
        ELSE IF SimLess(Head(sorted).similarity, r.similarity) THEN <<r>> \o sorted
        ELSE <<Head(sorted)>> \o Insert(Tail(sorted), r)
      RECURSIVE Sort(_, _)
      Sort(sorted, rest) ==
        IF rest = <<>> THEN sorted ELSE Sort(Insert(sorted, Head(rest)), Tail(rest))
  IN Sort(<<>>, results)

\* searchSimilarEmbeddings, what it returns: `failed` when cosineSimilarity
\* throws on a stored vector of another length or the query rejects.
SimilarEmbeddings(docs, queryEmbedding, limit, campaignId, minSimilarity) ==
  LET snapshot == SnapshotDocs(docs, campaignId)
      Result(doc) == [sceneId |-> doc.sceneId,
                      similarity |-> cosineSimilarity(queryEmbedding, doc.embedding),
                      metadata |-> doc.metadata]
      all == [i \in 1..Len(snapshot) |-> Result(snapshot[i])]
      Passes(r) == ~SimLess(r.similarity, minSimilarity)
      sorted == SortDescending(SelectSeq(all, Passes))
  IN IF \E i \in 1..Len(snapshot) : LengthMismatch(queryEmbedding, snapshot[i].embedding)
     THEN [ok |-> FALSE, results |-> <<>>]
     ELSE [ok |-> TRUE,
           results |-> SubSeq(sorted, 1, IF limit < Len(sorted) THEN limit ELSE Len(sorted))]

SearchSimilarEmbeddings(queryEmbedding, limit, campaignId, minSimilarity) ==
  /\ \E getOk \in BOOLEAN :
       LET found == SimilarEmbeddings(embeddings, queryEmbedding, limit, campaignId,
                                      minSimilarity)
       IN lastOp' = [op |-> "searchSimilarEmbeddings", ok |-> getOk /\ found.ok,
                     results |-> IF getOk THEN found.results ELSE <<>>,
                     queryEmbedding |-> queryEmbedding, limit |-> limit,
                     campaignId |-> campaignId, minSimilarity |-> minSimilarity]
  /\ UNCHANGED embeddings
  /\ UNCHANGED notIndex

NextIndex ==
  \/ \E sceneId \in StoredSceneIds, embedding \in StoredVectors, campaignId \in Campaigns :
       StoreEmbedding(sceneId, embedding, [campaignId |-> campaignId, videoId |-> sceneId[1]])
  \/ \E embeddingId \in DOMAIN embeddings : DeleteEmbedding(embeddingId)
  \/ \E queryEmbedding \in QueryVectors, limit \in Limits,
        campaignId \in Campaigns \cup {NoCampaign}, minSimilarity \in Thresholds :
       SearchSimilarEmbeddings(queryEmbedding, limit, campaignId, minSimilarity)

(***************************************************************************)
(* EmbeddingService.processScene: generateEmbedding, then storeEmbedding.  *)
(***************************************************************************)
\* processScene(scene) up to generateEmbedding's first await. (lastOp holds
\* the scene and its metadata until the embedding is there.)
ProcessScene(sceneId, campaignId, embeddingText) ==
  /\ epc \in {"idle", "done"}
  /\ lastOp.op # "processScene"
  /\ ecalls < MaxEmbedCalls
  /\ ecalls' = ecalls + 1
  /\ Enter(embeddingText, 0)
  /\ upstream' = 0
  /\ succeeded' = FALSE
  /\ eresult' = NoVector
  /\ lastOp' = [op |-> "processScene", sceneId |-> sceneId,
                metadata |-> [campaignId |-> campaignId, videoId |-> sceneId[1]]]
  /\ UNCHANGED <<minDelayBetweenRequests, consecutiveRateLimitErrors, embeddings>>
  /\ UNCHANGED <<chatVars, turnVars, loopVars, videoVars, routerVars, searchVars, pacingVars>>

\* generateEmbedding has returned: `await this.storeEmbedding(scene.id,
\* embedding, metadata)`.
ProcessSceneStores ==
  /\ lastOp.op = "processScene"
  /\ epc = "done"
  /\ StoreEmbedding(lastOp.sceneId, eresult, lastOp.metadata)

NextProcess ==
  \/ \E sceneId \in StoredSceneIds, campaignId \in Campaigns, embeddingText \in EmbedTexts :
       ProcessScene(sceneId, campaignId, embeddingText)
  \/ PacingWaitEnds
  \/ AuthReturns
  \/ FetchReturns
  \/ BackoffEnds
  \/ ProcessSceneStores

(***************************************************************************)
(* VideoService: createVideo, processVideo, deleteVideo.                   *)
(***************************************************************************)
MaxVideos == 1
ScenesPerVideo == 2

VideoIds == 1..MaxVideos
SceneNumbers == 1..ScenesPerVideo
SceneIds == {SceneId(v, n) : v \in VideoIds, n \in SceneNumbers}
NoEmbeddingId == <<>>
\* What generateEmbedding returns for a scene's text.
SceneVectors == {Vec(1, 0), Vec(1, 1)}

VideoStart ==
  /\ videos = [v \in VideoIds |-> NoDoc]
  /\ scenes = [id \in SceneIds |-> NoDoc]
  /\ vpc = [v \in VideoIds |-> "none"]
  /\ vnext = [v \in VideoIds |-> 1]
  /\ vresults = [v \in VideoIds |-> {}]
  /\ vcampaign = [v \in VideoIds |-> NoCampaign]
  /\ dpc = [v \in VideoIds |-> "idle"]
  /\ dsnap = [v \in VideoIds |-> <<>>]
  /\ dnext = [v \in VideoIds |-> 1]
  /\ deleted = [v \in VideoIds |-> "none"]

\* The embeddings collection as the pipeline finds it.
VideoIndexStart ==
  /\ embeddings = [id \in {EmbeddingId(sceneId) : sceneId \in SceneIds} |-> NoDoc]
  /\ lastOp = NoOp

\* createVideo (the upload handler calls it, then processVideo).
CreateVideo(v, campaignId) ==
  /\ vpc[v] = "none"
  /\ \A u \in VideoIds : u < v => vpc[u] # "none"
  /\ \E setOk \in BOOLEAN :
       IF setOk
       THEN /\ videos' = [videos EXCEPT ![v] = [exists |-> TRUE, status |-> "processing",
                                                campaignId |-> campaignId, progress |-> {}]]
            /\ vpc' = [vpc EXCEPT ![v] = "metadata"]
            /\ vcampaign' = [vcampaign EXCEPT ![v] = campaignId]
       ELSE /\ vpc' = [vpc EXCEPT ![v] = "done"]
            /\ UNCHANGED <<videos, vcampaign>>
  /\ UNCHANGED <<scenes, vnext, vresults, dpc, dsnap, dnext, deleted, indexVars>>
  /\ UNCHANGED notVideo

\* updateProgress(videoId, flags): update({progress: flags}) puts the given
\* object in the place of the stored one. A video's progress is the set of
\* its flags that are true.
UpdateProgress(v, flags) == [videos EXCEPT ![v].progress = flags]

\* processVideo's steps 1 to 3 (metadata, transcription, scene detection):
\* the step's work and its updateProgress succeed, or something throws.
StageDone(v) ==
  /\ vpc[v] \in {"metadata", "transcription", "sceneDetection"}
  /\ \E stageOk \in BOOLEAN :
       IF stageOk /\ videos[v].exists
       THEN /\ videos' = UpdateProgress(v, {vpc[v]})
            /\ vpc' = [vpc EXCEPT ![v] = CASE vpc[v] = "metadata" -> "transcription"
                                           [] vpc[v] = "transcription" -> "sceneDetection"
                                           [] OTHER -> "sceneAnalysis"]
       ELSE /\ vpc' = [vpc EXCEPT ![v] = "failing"]
            /\ UNCHANGED videos
  /\ UNCHANGED <<scenes, vnext, vresults, vcampaign, dpc, dsnap, dnext, deleted, indexVars>>
  /\ UNCHANGED notVideo

\* Step 4, one scene: uploads, analysis, the scene document is set; after the
\* last scene updateProgress({sceneAnalysis: true}), which throws when the
\* video document is not there.
SceneAnalyzed(v) ==
  /\ vpc[v] = "sceneAnalysis"
  /\ \E sceneOk \in BOOLEAN :
       IF sceneOk
       THEN /\ scenes' = [scenes EXCEPT ![SceneId(v, vnext[v])] =
                            [exists |-> TRUE, videoId |-> v,
                             campaignId |-> vcampaign[v],
                             embeddingId |-> NoEmbeddingId]]
            /\ IF vnext[v] < ScenesPerVideo
               THEN /\ vnext' = [vnext EXCEPT ![v] = @ + 1]
                    /\ UNCHANGED <<vpc, videos>>
               ELSE IF videos[v].exists
               THEN /\ vnext' = [vnext EXCEPT ![v] = 1]
                    /\ vpc' = [vpc EXCEPT ![v] = "embeddings"]
                    /\ videos' = UpdateProgress(v, {"sceneAnalysis"})
               ELSE /\ vpc' = [vpc EXCEPT ![v] = "failing"]
                    /\ UNCHANGED <<vnext, videos>>
       ELSE /\ vpc' = [vpc EXCEPT ![v] = "failing"]
            /\ UNCHANGED <<scenes, vnext, videos>>
  /\ UNCHANGED <<vresults, vcampaign, dpc, dsnap, dnext, deleted, indexVars>>
  /\ UNCHANGED notVideo

\* Step 5, batchProcessScenes, one scene: processScene generates the
\* embedding and stores it; the id goes into the result map. A failed store
\* throws out of the batch: the map is lost.
SceneEmbedded(v) ==
  /\ vpc[v] = "embeddings"
  /\ LET sceneId == SceneId(v, vnext[v])
         metadata == [campaignId |-> vcampaign[v], videoId |-> v]
     IN \E embedding \in SceneVectors, setOk \in BOOLEAN :
          /\ lastOp' = [op |-> "storeEmbedding", ok |-> setOk, sceneId |-> sceneId,
                        embedding |-> embedding, metadata |-> metadata,
                        replaced |-> embeddings[EmbeddingId(sceneId)].exists]
          /\ IF setOk
             THEN /\ embeddings' = [embeddings EXCEPT ![EmbeddingId(sceneId)] =
                         [exists |-> TRUE, sceneId |-> sceneId, embedding |-> embedding,
                          metadata |-> metadata, dimension |-> embedding.length]]
                  /\ vresults' = [vresults EXCEPT ![v] = @ \cup {sceneId}]
                  /\ IF vnext[v] < ScenesPerVideo
                     THEN /\ vnext' = [vnext EXCEPT ![v] = @ + 1]
                          /\ UNCHANGED vpc
                     ELSE /\ vnext' = [vnext EXCEPT ![v] = 1]
                          /\ vpc' = [vpc EXCEPT ![v] = "embeddingIds"]
             ELSE /\ vpc' = [vpc EXCEPT ![v] = "failing"]
                  /\ vresults' = [vresults EXCEPT ![v] = {}]
                  /\ UNCHANGED <<embeddings, vnext>>
  /\ UNCHANGED <<videos, scenes, vcampaign, dpc, dsnap, dnext, deleted>>
  /\ UNCHANGED notVideo

\* The loop over the result map: the scene's embeddingId is written (the
\* update throws when the scene document is not there); after the last one
\* updateProgress({embeddings: true}).
EmbeddingIdWritten(v) ==
  /\ vpc[v] = "embeddingIds"
  /\ LET sceneId == SceneId(v, vnext[v]) IN
       \E updateOk \in BOOLEAN :
         IF updateOk /\ scenes[sceneId].exists
         THEN /\ scenes' = [scenes EXCEPT ![sceneId].embeddingId = EmbeddingId(sceneId)]
              /\ IF vnext[v] < ScenesPerVideo
                 THEN /\ vnext' = [vnext EXCEPT ![v] = @ + 1]
                      /\ UNCHANGED <<vpc, videos>>
                 ELSE IF videos[v].exists
                 THEN /\ vnext' = [vnext EXCEPT ![v] = 1]
                      /\ vpc' = [vpc EXCEPT ![v] = "completing"]
                      /\ videos' = UpdateProgress(v, {"embeddings"})
                 ELSE /\ vpc' = [vpc EXCEPT ![v] = "failing"]
                      /\ UNCHANGED <<vnext, videos>>
         ELSE /\ vpc' = [vpc EXCEPT ![v] = "failing"]
              /\ UNCHANGED <<scenes, vnext, videos>>
  /\ UNCHANGED <<vresults, vcampaign, dpc, dsnap, dnext, deleted, indexVars>>
  /\ UNCHANGED notVideo

\* Step 6 and the end: cleanupTempFiles (it swallows its errors), then
\* updateStatus('completed'), which can throw, then updateCampaignStats (it
\* swallows its errors too).
Completed(v) ==
  /\ vpc[v] = "completing"
  /\ \E updateOk \in BOOLEAN :
       IF updateOk /\ videos[v].exists
       THEN /\ videos' = [videos EXCEPT ![v].status = "completed"]
            /\ vpc' = [vpc EXCEPT ![v] = "done"]
       ELSE /\ vpc' = [vpc EXCEPT ![v] = "failing"]
            /\ UNCHANGED videos
  /\ UNCHANGED <<scenes, vnext, vresults, vcampaign, dpc, dsnap, dnext, deleted, indexVars>>
  /\ UNCHANGED notVideo

\* update({status: 'failed', errorMessage, updatedAt}) on a video document.
FailedDoc(doc, errorMessage) ==
  [errorMessage |-> errorMessage] @@ [doc EXCEPT !.status = "failed"]

Failed_setsCompleted(v) ==
  /\ vpc[v] = "failing"
  /\ vpc' = [vpc EXCEPT ![v] = "done"]
  /\ \E updateOk \in BOOLEAN :
       videos' = IF updateOk /\ videos[v].exists
                 THEN [videos EXCEPT ![v].status = "completed"] ELSE videos
  /\ vnext' = [vnext EXCEPT ![v] = 1]
  /\ vresults' = [vresults EXCEPT ![v] = {}]
  /\ UNCHANGED <<scenes, vcampaign, dpc, dsnap, dnext, deleted, indexVars>>
  /\ UNCHANGED notVideo

\* processVideo's catch: the status becomes 'failed' and the error's message
\* is stored (or that update fails too), and the error is thrown on.
Failed(v) ==
  /\ vpc[v] = "failing"
  /\ vpc' = [vpc EXCEPT ![v] = "done"]
  /\ \E updateOk \in BOOLEAN :
       videos' = IF updateOk /\ videos[v].exists
                 THEN [videos EXCEPT ![v] = FailedDoc(@, "error")] ELSE videos
  /\ vnext' = [vnext EXCEPT ![v] = 1]
  /\ vresults' = [vresults EXCEPT ![v] = {}]
  /\ UNCHANGED <<scenes, vcampaign, dpc, dsnap, dnext, deleted, indexVars>>
  /\ UNCHANGED notVideo

\* deleteVideo ends: it returns ("ok") or throws ("failed").
DeleteEnds(v, how) ==
  /\ dpc' = [dpc EXCEPT ![v] = "idle"]
  /\ dsnap' = [dsnap EXCEPT ![v] = <<>>]
  /\ dnext' = [dnext EXCEPT ![v] = 1]
  /\ deleted' = [deleted EXCEPT ![v] = how]

\* deleteVideo is called for a video whose processing has ended; the scenes
\* query is sent.
DeleteVideo(v) ==
  /\ vpc[v] = "done"
  /\ dpc[v] = "idle"
  /\ videos[v].exists
  /\ dpc' = [dpc EXCEPT ![v] = "query"]
  /\ UNCHANGED <<videos, scenes, vpc, vnext, vresults, vcampaign, dsnap, dnext, deleted, indexVars>>
  /\ UNCHANGED notVideo

\* deleteVideo is called for a video whose processVideo, started by the
\* upload handler without an await, is still running.
DeleteVideoInFlight(v) ==
  /\ vpc[v] \notin {"none", "done"}
  /\ dpc[v] = "idle"
  /\ deleted[v] = "none"
  /\ videos[v].exists
  /\ dpc' = [dpc EXCEPT ![v] = "query"]
  /\ UNCHANGED <<videos, scenes, vpc, vnext, vresults, vcampaign, dsnap, dnext, deleted, indexVars>>
  /\ UNCHANGED notVideo

\* The scenes of the video, as the query returns them.
ScenesOf(v) ==
  LET ids == SelectSeq([n \in 1..ScenesPerVideo |-> SceneId(v, n)],
                       LAMBDA id : scenes[id].exists /\ scenes[id].videoId = v)
  IN [i \in 1..Len(ids) |-> [id |-> ids[i], embeddingId |-> scenes[ids[i]].embeddingId]]

\* The query resolves (or rejects).
DeleteVideoQueried(v) ==
  /\ dpc[v] = "query"
  /\ \E getOk \in BOOLEAN :
       IF getOk
       THEN /\ dpc' = [dpc EXCEPT ![v] = "embeddings"]
            /\ dsnap' = [dsnap EXCEPT ![v] = ScenesOf(v)]
            /\ UNCHANGED <<dnext, deleted>>
       ELSE DeleteEnds(v, "failed")
  /\ UNCHANGED <<videos, scenes, vpc, vnext, vresults, vcampaign, indexVars>>
  /\ UNCHANGED notVideo

\* The loop over the snapshot: `if (scene.embeddingId) await deleteEmbedding`.
\* The scenes without an embeddingId are passed over without an await.
RECURSIVE NextWithEmbedding(_, _)
NextWithEmbedding(snapshot, i) ==
  IF i > Len(snapshot) \/ snapshot[i].embeddingId # NoEmbeddingId THEN i
  ELSE NextWithEmbedding(snapshot, i + 1)

DeleteVideoEmbeddings(v) ==
  /\ dpc[v] = "embeddings"
  /\ LET i == NextWithEmbedding(dsnap[v], dnext[v]) IN
       IF i > Len(dsnap[v])
       THEN \* the loop is over: the batch that deletes the scenes is committed
            \E commitOk \in BOOLEAN :
              IF commitOk
              THEN /\ scenes' = [id \in DOMAIN scenes |->
                                   IF \E k \in 1..Len(dsnap[v]) : dsnap[v][k].id = id
                                   THEN NoDoc ELSE scenes[id]]
                   /\ dpc' = [dpc EXCEPT ![v] = "record"]
                   /\ UNCHANGED <<dsnap, dnext, deleted, indexVars>>
              ELSE /\ DeleteEnds(v, "failed")
                   /\ UNCHANGED <<scenes, indexVars>>
       ELSE \E deleteOk \in BOOLEAN :
              /\ lastOp' = [op |-> "deleteEmbedding", ok |-> deleteOk,
                            embeddingId |-> dsnap[v][i].embeddingId]
              /\ IF deleteOk
                 THEN /\ embeddings' = [embeddings EXCEPT ![dsnap[v][i].embeddingId] = NoDoc]
                      /\ dnext' = [dnext EXCEPT ![v] = i + 1]
                      /\ UNCHANGED <<dpc, dsnap, deleted>>
                 ELSE /\ DeleteEnds(v, "failed")
                      /\ UNCHANGED embeddings
              /\ UNCHANGED scenes
  /\ UNCHANGED <<videos, vpc, vnext, vresults, vcampaign>>
  /\ UNCHANGED notVideo

\* The folders in storage are deleted, then the video document.
DeleteVideoRecord(v) ==
  /\ dpc[v] = "record"
  /\ \E deleteOk \in BOOLEAN :
       IF deleteOk
       THEN /\ videos' = [videos EXCEPT ![v] = NoDoc]
            /\ DeleteEnds(v, "ok")
       ELSE /\ DeleteEnds(v, "failed")
            /\ UNCHANGED videos
  /\ UNCHANGED <<scenes, vpc, vnext, vresults, vcampaign, indexVars>>
  /\ UNCHANGED notVideo

NextVideo ==
  \/ \E v \in VideoIds, campaignId \in Campaigns : CreateVideo(v, campaignId)
  \/ \E v \in VideoIds : StageDone(v)
  \/ \E v \in VideoIds : SceneAnalyzed(v)
  \/ \E v \in VideoIds : SceneEmbedded(v)
  \/ \E v \in VideoIds : EmbeddingIdWritten(v)
  \/ \E v \in VideoIds : Completed(v)
  \/ \E v \in VideoIds : Failed(v)
  \/ \E v \in VideoIds : DeleteVideo(v)
  \/ \E v \in VideoIds : DeleteVideoQueried(v)
  \/ \E v \in VideoIds : DeleteVideoEmbeddings(v)
  \/ \E v \in VideoIds : DeleteVideoRecord(v)
  \/ \E limit \in Limits, campaignId \in Campaigns \cup {NoCampaign} :
       SearchSimilarEmbeddings(Vec(1, 0), limit, campaignId, [n |-> 0, d |-> 1])

\* The upload handler and the delete handler on one video: processVideo
\* runs on while deleteVideo does.
NextDelete ==
  \/ \E v \in VideoIds, campaignId \in Campaigns : CreateVideo(v, campaignId)
  \/ \E v \in VideoIds : StageDone(v)
  \/ \E v \in VideoIds : SceneAnalyzed(v)
  \/ \E v \in VideoIds : SceneEmbedded(v)
  \/ \E v \in VideoIds : EmbeddingIdWritten(v)
  \/ \E v \in VideoIds : Completed(v)
  \/ \E v \in VideoIds : Failed(v)
  \/ \E v \in VideoIds : DeleteVideoInFlight(v)
  \/ \E v \in VideoIds : DeleteVideoQueried(v)
  \/ \E v \in VideoIds : DeleteVideoEmbeddings(v)
  \/ \E v \in VideoIds : DeleteVideoRecord(v)

(***************************************************************************)
(* SearchService.analyzeQuery.                                             *)
(***************************************************************************)
MaxPieces == 3

semanticKeywords ==
  {<<"l", "i", "k", "e">>,
   <<"s", "i", "m", "i", "l", "a", "r">>,
   <<"s", "h", "o", "w", "i", "n", "g">>,
   <<"w", "i", "t", "h">>,
   <<"a", "b", "o", "u", "t">>,
   <<"f", "e", "a", "t", "u", "r", "i", "n", "g">>,
   <<"s", "c", "e", "n", "e">>,
   <<"v", "i", "d", "e", "o">>,
   <<"m", "o", "m", "e", "n", "t">>,
   <<"p", "a", "r", "t">>,
   <<"f", "e", "e", "l">>,
   <<"m", "o", "o", "d">>,
   <<"v", "i", "b", "e">>,
   <<"h", "a", "p", "p", "y">>,
   <<"s", "a", "d">>,
   <<"e", "n", "e", "r", "g", "e", "t", "i", "c">>,
   <<"c", "a", "l", "m">>,
   <<"e", "x", "c", "i", "t", "i", "n", "g">>,
   <<"e", "m", "o", "t", "i", "o", "n", "a", "l">>}

filterKeywords ==
  {<<"e", "x", "a", "c", "t">>,
   <<"i", "d", ":">>,
   <<"c", "a", "m", "p", "a", "i", "g", "n", ":">>,
   <<"p", "r", "o", "d", "u", "c", "t", ":">>}

\* String.prototype.includes
includes(str, kw) ==
  \E i \in 1..(Len(str) - Len(kw) + 1) : SubSeq(str, i, i + Len(kw) - 1) = kw

analyzeQuery(q) ==
  LET queryLower == toLowerCase(q)
      hasFilterKeywords == \E kw \in filterKeywords : includes(queryLower, kw)
      hasSemanticKeywords == \E kw \in semanticKeywords : includes(queryLower, kw)
      isDescriptive == Len(split(q)) > 3
  IN IF hasFilterKeywords THEN [type |-> "filtered", useVectorSearch |-> FALSE]
     ELSE IF hasSemanticKeywords \/ isDescriptive
     THEN [type |-> "semantic", useVectorSearch |-> TRUE]
     ELSE [type |-> "general", useVectorSearch |-> TRUE]

\* The queries: the fixtures of the documentation, and what up to MaxPieces
\* of the pieces make in a row.
Fixtures ==
  {<<"c", "a", "m", "p", "a", "i", "g", "n", ":", "1", "2", "3">>,
   <<"e", "x", "a", "c", "t", " ", "i", "d", ":", "x", "y", "z">>,
   <<"h", "a", "p", "p", "y", " ", "m", "o", "m", "e", "n", "t", "s", " ", "w", "i", "t", "h", " ", "p", "e", "o", "p", "l", "e", " ", "s", "m", "i", "l", "i", "n", "g">>,
   <<"c", "a", "r">>}

Pieces ==
  {<<"c", "a", "m", "p", "a", "i", "g", "n", ":">>,
   <<"p", "r", "o", "d", "u", "c", "t", ":">>,
   <<"i", "d", ":">>,
   <<"e", "x", "a", "c", "t">>,
   <<"h", "a", "p", "p", "y">>,
   <<"S", "a", "d">>,
   <<"c", "a", "r">>,
   <<" ">>,
   <<"r", "e", "d", " ", "c", "a", "r", " ">>,
   <<"1", "2", "3">>}

RECURSIVE Joined(_)
Joined(n) ==
  IF n = 0 THEN {<<>>} ELSE {q \o piece : q \in Joined(n - 1), piece \in Pieces \cup {<<>>}}

Queries == Fixtures \cup Joined(MaxPieces)

NoStrategy == [type |-> "", useVectorSearch |-> FALSE]

RouterStart ==
  /\ query = <<>>
  /\ strategy = NoStrategy

\* queryScenes analyzes the query it is given.
AnalyzeQuery ==
  /\ strategy = NoStrategy
  /\ strategy' = analyzeQuery(query)
  /\ UNCHANGED query
  /\ UNCHANGED notRouter

NextRouter == AnalyzeQuery

(***************************************************************************)
(* SearchService.queryScenes and its callers.                              *)
(***************************************************************************)
MaxSearchVideos == 2
MaxDown == 1

SearchVideoIds == 1..MaxSearchVideos
\* Two scenes a video.
SearchSceneIds == {SceneId(v, n) : v \in SearchVideoIds, n \in 1..2}
NoScene == <<0, 0>>
NoProduct == <<>>
\* `vectorSimilarity` of a scene that has none (undefined).
NoSimilarity == [n |-> 0, d |-> 0]

\* The documents of the corpus. The videos belong to the two campaigns in
\* turn; the first scene of a video shows a product, the second does not.
\* A composed text with 'Product:' or 'exact' in it is classified 'filtered';
\* the text of the second scene of video 2 has neither.
CampaignOf(v) == IF v % 2 = 1 THEN "c1" ELSE "c2"

VideoDoc(v) ==
  [exists |-> TRUE, status |-> "completed", campaignId |-> CampaignOf(v), progress |-> {}]

StoredScene(id) ==
  [exists |-> TRUE, id |-> id, videoId |-> id[1], campaignId |-> CampaignOf(id[1]),
   sceneNumber |-> id[2],
   description |-> IF id[2] = 1 THEN <<"r", "e", "d", " ", "c", "a", "r">>
                   ELSE IF id[1] = 1 THEN <<"e", "x", "a", "c", "t", " ", "f", "i", "t">>
                   ELSE <<"b", "l", "u", "e", " ", "s", "k", "y">>,
   transcript |-> <<>>,
   analysis |-> [visualElements |-> IF id[2] = 1 THEN <<<<"c", "a", "r">>>> ELSE <<>>,
                 actions |-> <<>>,
                 mood |-> IF id[2] = 1 THEN <<"h", "a", "p", "p", "y">> ELSE <<"c", "a", "l", "m">>,
                 product |-> IF id[2] = 1 THEN <<"p", "1">> ELSE NoProduct,
                 cta |-> <<>>,
                 colors |-> <<>>,
                 confidence |-> IF id[2] = 1 THEN 9 ELSE 6],
   embeddingId |-> EmbeddingId(id),
   vectorSimilarity |-> NoSimilarity]

StoredEmbedding(id) ==
  [exists |-> TRUE, sceneId |-> id,
   embedding |-> IF id[2] = 2 THEN Vec(1, 1) ELSE IF id[1] % 2 = 1 THEN Vec(1, 0) ELSE Vec(0, 1),
   metadata |-> [campaignId |-> CampaignOf(id[1]), videoId |-> id[1]],
   dimension |-> 2]

\* createEmbeddingText (the scenes of the corpus run from 0 s to 5 s).
createEmbeddingText(scene) ==
  LET number == IF scene.sceneNumber = 1 THEN <<"1">> ELSE <<"2">>
      parts ==
        <<<<"S", "c", "e", "n", "e", " ">> \o number
            \o <<" ", "(", "0", "s", " ", "-", " ", "5", "s", ")", ":">>,
          scene.description,
          <<>>,
          <<"T", "r", "a", "n", "s", "c", "r", "i", "p", "t", ":", " ">> \o scene.transcript,
          <<>>,
          <<"V", "i", "s", "u", "a", "l", " ", "e", "l", "e", "m", "e", "n", "t", "s", ":", " ">>
            \o join(scene.analysis.visualElements, <<",", " ">>),
          <<"A", "c", "t", "i", "o", "n", "s", ":", " ">> \o join(scene.analysis.actions, <<",", " ">>),
          <<"M", "o", "o", "d", ":", " ">> \o scene.analysis.mood>>
        \o (IF scene.analysis.product # NoProduct
            THEN <<<<"P", "r", "o", "d", "u", "c", "t", ":", " ">> \o scene.analysis.product>>
            ELSE <<>>)
        \o (IF scene.analysis.cta # <<>>
            THEN <<<<"C", "a", "l", "l", " ", "t", "o", " ", "a", "c", "t", "i", "o", "n", ":", " ">> \o scene.analysis.cta>>
            ELSE <<>>)
        \o <<<<"C", "o", "l", "o", "r", "s", ":", " ">> \o join(scene.analysis.colors, <<",", " ">>)>>
  IN trim(join(parts, <<"\n">>))

\* SearchOptions. A limit of 0 and the empty values of the filters stand for
\* fields that are absent.
NoLimit == 0
NoFilters ==
  [mood |-> <<>>, product |-> NoProduct, minConfidence |-> 0, visualElements |-> <<>>]
SearchFilters ==
  {NoFilters,
   [NoFilters EXCEPT !.product = <<"p", "1">>],
   [NoFilters EXCEPT !.minConfidence = 7]}
Options == [campaignId : Campaigns \cup {NoCampaign}, limit : {NoLimit, 1}, filters : SearchFilters]

SearchQueries ==
  {<<"c", "a", "m", "p", "a", "i", "g", "n", ":", "c", "2">>,
   <<"p", "r", "o", "d", "u", "c", "t", ":", "p", "1">>,
   <<"e", "x", "a", "c", "t">>,
   <<"c", "a", "r">>,
   <<"h", "a", "p", "p", "y", " ", "c", "a", "r">>,
   <<"e", "x", "a", "c", "t", " ", "c", "a", "r", " ">>}

\* The reads of a call: the embeddings scan or the scenes query, the fetch of
\* a scene document, the fetch of a video document, the signing of a scene's
\* URLs. What a call meets: the vector generateEmbedding returns for the
\* query, and the reads that throw (at most MaxDown of them).
ScanRead == <<"scan", NoScene>>
SceneRead(id) == <<"scene", id>>
VideoRead(v) == <<"video", <<v, 0>>>>
UrlRead(id) == <<"url", id>>
Reads ==
  {ScanRead} \cup {SceneRead(id) : id \in SearchSceneIds}
    \cup {VideoRead(v) : v \in SearchVideoIds} \cup {UrlRead(id) : id \in SearchSceneIds}
Environments ==
  [queryEmbedding : {Vec(1, 0), Vec(0, 1)},
   down : {D \in SUBSET Reads : Cardinality(D) <= MaxDown}]

NoSearch == [op |-> "none"]

SearchStart == searched = NoSearch

\* applyFilters
applyFilters(list, options) ==
  LET filters == options.filters
      HasElement(scene) ==
        \E i \in 1..Len(filters.visualElements), j \in 1..Len(scene.analysis.visualElements) :
          scene.analysis.visualElements[j] = filters.visualElements[i]
      confident ==
        IF filters.minConfidence # 0
        THEN SelectSeq(list, LAMBDA scene : scene.analysis.confidence >= filters.minConfidence)
        ELSE list
  IN IF Len(filters.visualElements) > 0 THEN SelectSeq(confident, HasElement) ELSE confident

\* performVectorSearch, after searchSimilarEmbeddings: the scene documents of
\* the hits (a fetch that throws and a document that does not exist are
\* passed over), the filters. `failed`: the reads that threw.
ScenesOfHits(hits, options, env) ==
  LET Fetched(i) == SceneRead(hits[i].sceneId) \notin env.down /\ scenes[hits[i].sceneId].exists
      kept == SelectSeq([i \in 1..Len(hits) |-> i], Fetched)
      list == [k \in 1..Len(kept) |->
                 [scenes[hits[kept[k]].sceneId] EXCEPT
                    !.vectorSimilarity = hits[kept[k]].similarity]]
  IN [ok |-> TRUE, embedded |-> TRUE, scenes |-> applyFilters(list, options),
      failed |-> {SceneRead(hits[i].sceneId) : i \in 1..Len(hits)} \cap env.down]

VectorFound(found, options, env) ==
  IF ScanRead \in env.down \/ ~found.ok
  THEN [ok |-> FALSE, embedded |-> TRUE, scenes |-> <<>>, failed |-> {ScanRead} \cap env.down]
  ELSE ScenesOfHits(found.results, options, env)

\* performVectorSearch: generateEmbedding(query) (`embedded`), then
\* searchSimilarEmbeddings with minimum similarity 0.0.
performVectorSearch(options, env) ==
  VectorFound(SimilarEmbeddings(embeddings, env.queryEmbedding,
                                IF options.limit # NoLimit THEN options.limit ELSE 20,
                                options.campaignId, [n |-> 0, d |-> 1]),
              options, env)

\* performTraditionalSearch, the query over the scenes collection: the first
\* `limit` scene documents that match the equality filters of the options,
\* then applyFilters.
MatchingScenes(ids, options) ==
  LET Matches(id) ==
        /\ scenes[id].exists
        /\ options.campaignId # NoCampaign => scenes[id].campaignId = options.campaignId
        /\ options.filters.mood # <<>> => scenes[id].analysis.mood = options.filters.mood
        /\ options.filters.product # NoProduct
             => scenes[id].analysis.product = options.filters.product
      matching == SelectSeq(ids, Matches)
      limit == IF options.limit # NoLimit THEN options.limit ELSE 10
      docs == SubSeq(matching, 1, IF limit < Len(matching) THEN limit ELSE Len(matching))
  IN applyFilters([i \in 1..Len(docs) |-> scenes[docs[i]]], options)

\* The scene ids in the order of the collection.
SceneOrder(ordered) == [i \in 1..Len(ordered) |-> ordered[i][2]]

\* performTraditionalSearch. The query text is not read.
performTraditionalSearch(options, env) ==
  IF ScanRead \in env.down
  THEN [ok |-> FALSE, embedded |-> FALSE, scenes |-> <<>>, failed |-> {ScanRead}]
  ELSE [ok |-> TRUE, embedded |-> FALSE,
        scenes |-> MatchingScenes(SceneOrder(InOrder({EmbeddingId(id) : id \in DOMAIN scenes})),
                                  options),
        failed |-> {}]

\* calculateRelevanceScore. A score is n / sqrt(d), as a similarity is; the
\* keyword score is counted in hundredths.
calculateRelevanceScore(scene, q) ==
  IF scene.vectorSimilarity # NoSimilarity THEN scene.vectorSimilarity
  ELSE LET queryLower == toLowerCase(q)
           queryWords == split(queryLower)
           elements == scene.analysis.visualElements
           inDescription == IF includes(toLowerCase(scene.description), queryLower) THEN 20 ELSE 0
           inTranscript == IF includes(toLowerCase(scene.transcript), queryLower) THEN 15 ELSE 0
           inElements ==
             10 * Cardinality({i \in 1..Len(queryWords) :
                                 \E j \in 1..Len(elements) :
                                   includes(toLowerCase(elements[j]), queryWords[i])})
           score == scene.analysis.confidence * 5 + inDescription + inTranscript + inElements
       IN [n |-> IF score < 100 THEN score ELSE 100, d |-> 10000]

SortByScore_asFound(results) == results

\* results.sort((a, b) => b.score - a.score)
SortByScore(results) ==
  LET RECURSIVE Insert(_, _)
      Insert(sorted, r) ==
        IF sorted = <<>> THEN <<r>>
        ELSE IF SimLess(Head(sorted).score, r.score) THEN <<r>> \o sorted
        ELSE <<Head(sorted)>> \o Insert(Tail(sorted), r)
      RECURSIVE Sort(_, _)
      Sort(sorted, rest) ==
        IF rest = <<>> THEN sorted ELSE Sort(Insert(sorted, Head(rest)), Tail(rest))
  IN Sort(<<>>, results)

\* enrichResults' loop leaves out a scene whose video fetch or URL signing
\* throws and a scene whose video document does not exist.
Enriched(scene, env) ==
  /\ VideoRead(scene.videoId) \notin env.down
  /\ videos[scene.videoId].exists
  /\ UrlRead(scene.id) \notin env.down

RECURSIVE Enrichable_stopsAtOrphan(_, _)
Enrichable_stopsAtOrphan(list, env) ==
  IF list = <<>> \/ ~Enriched(Head(list), env) THEN <<>>
  ELSE <<Head(list)>> \o Enrichable_stopsAtOrphan(Tail(list), env)

\* `continue` and the catch inside the loop: the loop goes on with the next scene.
Enrichable(list, env) == SelectSeq(list, LAMBDA scene : Enriched(scene, env))

\* enrichResults: the results of the scenes its loop kept, sorted.
ResultsOf(kept, q) ==
  SortByScore([i \in 1..Len(kept) |->
                 [scene |-> kept[i], video |-> [id |-> kept[i].videoId],
                  score |-> calculateRelevanceScore(kept[i], q)]])

\* enrichResults
enrichResults(list, q, env) ==
  [results |-> ResultsOf(Enrichable(list, env), q),
   failed |-> {VideoRead(list[i].videoId) : i \in 1..Len(list)} \cap env.down]

\* queryScenes, after the search of the strategy: the enriched results.
Response(searchStrategy, found, enriched) ==
  IF found.ok
  THEN [ok |-> TRUE, strategy |-> searchStrategy, embedded |-> found.embedded,
        results |-> enriched.results,
        failed |-> found.failed \cup enriched.failed]
  ELSE [ok |-> FALSE, strategy |-> searchStrategy, embedded |-> found.embedded,
        results |-> <<>>,
        failed |-> found.failed]

Enrich(searchStrategy, found, q, env) ==
  Response(searchStrategy, found, enrichResults(found.scenes, q, env))

Search_semanticOnly(searchStrategy, q, options, env) ==
  Enrich(searchStrategy,
         IF searchStrategy.type = "semantic" THEN performVectorSearch(options, env)
                                             ELSE performTraditionalSearch(options, env),
         q, env)

\* queryScenes, after analyzeQuery: the search of the strategy.
Search(searchStrategy, q, options, env) ==
  Enrich(searchStrategy,
         IF searchStrategy.useVectorSearch THEN performVectorSearch(options, env)
                                           ELSE performTraditionalSearch(options, env),
         q, env)

\* queryScenes: what it returns (ok) or that it throws 'Search failed'.
queryScenes(q, options, env) == Search(analyzeQuery(q), q, options, env)

\* A call returns (or throws): what it was given, what it met, what came back.
\* One call is followed from the corpus as it stands.
Returns(op, q, options, conversationCampaign, sceneId, env, out) ==
  /\ searched' = [op |-> op, query |-> q, options |-> options,
                  conversationCampaign |-> conversationCampaign, sceneId |-> sceneId,
                  env |-> env, ok |-> out.ok, strategy |-> out.strategy,
                  embedded |-> out.embedded,
                  results |-> out.results, failed |-> out.failed]
  /\ UNCHANGED <<indexVars, videoVars>>
  /\ UNCHANGED notSearch

\* POST /search/query
QueryScenes(q, options) ==
  /\ searched = NoSearch
  /\ \E env \in Environments :
       Returns("queryScenes", q, options, NoCampaign, NoScene, env, queryScenes(q, options, env))

\* ChatService.retrieveContext(message, conversation.campaignId): the scenes
\* of the results, [] when queryScenes throws.
RetrieveContextSearch(message, campaignId) ==
  /\ searched = NoSearch
  /\ \E env \in Environments :
       LET options == [campaignId |-> campaignId, limit |-> 10, filters |-> NoFilters]
       IN Returns("retrieveContext", message, options, campaignId, NoScene, env,
                  queryScenes(message, options, env))

\* ChatService.executeFunction, case 'search_scenes', in a conversation of
\* the given campaign: the arguments are the model's.
SearchScenes(conversationCampaign, args) ==
  /\ searched = NoSearch
  /\ \E env \in Environments :
       LET options == [campaignId |-> args.campaignId,
                       limit |-> IF args.limit # NoLimit THEN args.limit ELSE 10,
                       filters |-> NoFilters]
       IN Returns("search_scenes", args.query, options, conversationCampaign, NoScene, env,
                  queryScenes(args.query, options, env))

\* findSimilarScenes: the results without the source scene, the first `limit`.
similarScenes(out, sceneId, limit) ==
  LET others == SelectSeq(out.results, LAMBDA result : result.scene.id # sceneId)
  IN [out EXCEPT !.results = SubSeq(others, 1, IF limit < Len(others) THEN limit ELSE Len(others))]

\* findSimilarScenes
FindSimilarScenes(sceneId, limit, campaignId) ==
  /\ searched = NoSearch
  /\ \E env \in Environments :
       LET options == [campaignId |-> campaignId, limit |-> limit + 1, filters |-> NoFilters]
           searchText == createEmbeddingText(scenes[sceneId])
       IN IF SceneRead(sceneId) \in env.down \/ ~scenes[sceneId].exists
          THEN Returns("findSimilarScenes", <<>>, [options EXCEPT !.limit = limit], NoCampaign,
                       sceneId, env,
                       [ok |-> FALSE, strategy |-> NoStrategy, embedded |-> FALSE,
                        results |-> <<>>,
                        failed |-> {SceneRead(sceneId)} \cap env.down])
          ELSE Returns("findSimilarScenes", searchText, [options EXCEPT !.limit = limit],
                       NoCampaign, sceneId, env,
                       similarScenes(queryScenes(searchText, options, env), sceneId, limit))

NextSearch ==
  \/ \E q \in SearchQueries, options \in Options : QueryScenes(q, options)
  \/ \E message \in SearchQueries, campaignId \in Campaigns \cup {NoCampaign} :
       RetrieveContextSearch(message, campaignId)
  \/ \E conversationCampaign \in Campaigns \cup {NoCampaign},
        args \in [query : SearchQueries, campaignId : Campaigns \cup {NoCampaign},
                  limit : {NoLimit, 1}] :
       SearchScenes(conversationCampaign, args)
  \/ \E sceneId \in SearchSceneIds, limit \in Limits, campaignId \in Campaigns \cup {NoCampaign} :
       FindSimilarScenes(sceneId, limit, campaignId)

(***************************************************************************)
(* generateEmbedding calls that are in flight together. The node process   *)
(* runs one callback at a time; a call gives way at each await (the pacing *)
(* timer, getClient/getAccessToken, fetch, the backoff timer). Time is     *)
(* followed in steps of Tick; a timer fires at the first step at which it  *)
(* is due.                                                                 *)
(***************************************************************************)
MaxPacedCalls == 3
PacedCalls == 1..MaxPacedCalls
Tick == MinDelayFloor \div 2
MaxNow == 4 * MinDelayFloor

\* `lastEmbeddingRequestTime = 0`: longer ago than any delay.
LongAgo == 0 - MinDelayCeiling

NotSettled == [kind |-> "none"]

PacingStart ==
  /\ now = 0
  /\ lastEmbeddingRequestTime = LongAgo
  /\ ppc = [c \in PacedCalls |-> "idle"]
  /\ pretry = [c \in PacedCalls |-> 0]
  /\ pwake = [c \in PacedCalls |-> 0]
  /\ sent = <<>>
  /\ settled = NotSettled

embedFrame == <<epc, etext, retryCount, upstream, succeeded, eresult, ecalls>>
limiter == <<minDelayBetweenRequests, consecutiveRateLimitErrors>>

\* The first instant that is `delay` ms or more after `from`.
DueAt(from, delay) == from + ((delay.n + delay.d - 1) \div delay.d)

\* The entry of generateEmbedding: `timeSinceLastRequest < minDelay`, then
\* the wait for the rest of the delay, or `lastEmbeddingRequestTime = Date.now()`
\* at once.
Pace(c) ==
  /\ IF (now - lastEmbeddingRequestTime) * minDelayBetweenRequests.d < minDelayBetweenRequests.n
     THEN /\ ppc' = [ppc EXCEPT ![c] = "pacing"]
          /\ pwake' = [pwake EXCEPT ![c] = DueAt(lastEmbeddingRequestTime, minDelayBetweenRequests)]
          /\ UNCHANGED lastEmbeddingRequestTime
     ELSE /\ ppc' = [ppc EXCEPT ![c] = "auth"]
          /\ lastEmbeddingRequestTime' = now
          /\ UNCHANGED pwake

\* A caller calls generateEmbedding(text) (the calls are numbered as they come).
PacedCall(c) ==
  /\ ppc[c] = "idle"
  /\ c > 1 => ppc[c - 1] # "idle"
  /\ Pace(c)
  /\ UNCHANGED <<now, pretry, sent, settled, limiter, embedFrame>>
  /\ UNCHANGED notPacing

\* The pacing timer fires: `this.lastEmbeddingRequestTime = Date.now()`,
\* whatever the other calls did meanwhile.
PacedWaitEnds(c) ==
  /\ ppc[c] = "pacing"
  /\ now >= pwake[c]
  /\ ppc' = [ppc EXCEPT ![c] = "auth"]
  /\ lastEmbeddingRequestTime' = now
  /\ UNCHANGED <<now, pretry, pwake, sent, settled, limiter, embedFrame>>
  /\ UNCHANGED notPacing

\* The catch block of an attempt of call c.
PacedCatch(c, is429) ==
  /\ settled' = [kind |-> IF is429 THEN "rateLimit" ELSE "error",
                 delay |-> minDelayBetweenRequests, errors |-> consecutiveRateLimitErrors]
  /\ IF is429
     THEN /\ consecutiveRateLimitErrors' = consecutiveRateLimitErrors + 1
          /\ minDelayBetweenRequests' = DelayDoubled(minDelayBetweenRequests)
     ELSE UNCHANGED limiter
  /\ IF is429 /\ pretry[c] < maxRetries
     THEN /\ ppc' = [ppc EXCEPT ![c] = "backoff"]
          /\ pwake' = [pwake EXCEPT ![c] = now + backoffMs(pretry[c])]
     ELSE /\ ppc' = [ppc EXCEPT ![c] = "done"]
          /\ UNCHANGED pwake

\* getClient / getAccessToken settle: fetch sends the request, or they throw.
PacedAuthReturns(c) ==
  /\ ppc[c] = "auth"
  /\ \/ /\ ppc' = [ppc EXCEPT ![c] = "fetching"]
        /\ sent' = Append(sent, [at |-> now, minDelay |-> minDelayBetweenRequests])
        /\ UNCHANGED <<pwake, settled, limiter>>
     \/ /\ \E is429 \in BOOLEAN : PacedCatch(c, is429)
        /\ UNCHANGED sent
  /\ UNCHANGED <<now, lastEmbeddingRequestTime, pretry, embedFrame>>
  /\ UNCHANGED notPacing

\* The request settles: with a vector, or with an error.
PacedFetchReturns(c) ==
  /\ ppc[c] = "fetching"
  /\ \/ /\ ppc' = [ppc EXCEPT ![c] = "done"]
        /\ settled' = [kind |-> "success", delay |-> minDelayBetweenRequests,
                       errors |-> consecutiveRateLimitErrors]
        /\ consecutiveRateLimitErrors' = 0
        /\ minDelayBetweenRequests' = DelayReduced(minDelayBetweenRequests)
        /\ UNCHANGED pwake
     \/ \E is429 \in BOOLEAN : PacedCatch(c, is429)
  /\ UNCHANGED <<now, lastEmbeddingRequestTime, pretry, sent, embedFrame>>
  /\ UNCHANGED notPacing

\* The backoff timer fires: `return this.generateEmbedding(text, retryCount + 1)`.
PacedBackoffEnds(c) ==
  /\ ppc[c] = "backoff"
  /\ now >= pwake[c]
  /\ pretry' = [pretry EXCEPT ![c] = pretry[c] + 1]
  /\ Pace(c)
  /\ UNCHANGED <<now, sent, settled, limiter, embedFrame>>
  /\ UNCHANGED notPacing

\* Time passes, up to the next step; the timers that are due fire first.
Advance ==
  /\ now + Tick <= MaxNow
  /\ \A c \in PacedCalls : ppc[c] \in {"pacing", "backoff"} => now < pwake[c]
  /\ now' = now + Tick
  /\ UNCHANGED <<lastEmbeddingRequestTime, ppc, pretry, pwake, sent, settled, limiter, embedFrame>>
  /\ UNCHANGED notPacing

NextPacing ==
  \/ \E c \in PacedCalls : PacedCall(c)
  \/ \E c \in PacedCalls : PacedWaitEnds(c)
  \/ \E c \in PacedCalls : PacedAuthReturns(c)
  \/ \E c \in PacedCalls : PacedFetchReturns(c)
  \/ \E c \in PacedCalls : PacedBackoffEnds(c)
  \/ Advance

(***************************************************************************)
(* The specifications. Each starts the services it is about and leaves the *)
(* others as constructed.                                                  *)
(***************************************************************************)
InitChat ==
  ChatStart /\ EmbedStart /\ IndexStart /\ VideoStart /\ RouterStart /\ SearchStart /\ PacingStart
SpecChat == InitChat /\ [][NextChat]_vars
SpecTurn == InitChat /\ [][NextTurn]_vars

InitEmbed ==
  EmbedStart /\ ChatStart /\ ~gcp /\ IndexStart /\ VideoStart /\ RouterStart /\ SearchStart /\ PacingStart
\* Timers fire and awaited requests settle.
SpecEmbed == InitEmbed /\ [][NextEmbed]_vars /\ WF_vars(EmbedStep)

SpecProcess == InitEmbed /\ [][NextProcess]_vars
SpecPacing == InitEmbed /\ [][NextPacing]_vars

InitIndex ==
  IndexStart /\ ChatStart /\ ~gcp /\ EmbedStart /\ VideoStart /\ RouterStart /\ SearchStart /\ PacingStart
SpecIndex == InitIndex /\ [][NextIndex]_vars

InitVideo ==
  /\ VideoStart /\ VideoIndexStart
  /\ ChatStart /\ ~gcp /\ EmbedStart /\ RouterStart /\ SearchStart /\ PacingStart
SpecVideo == InitVideo /\ [][NextVideo]_vars
SpecDelete == InitVideo /\ [][NextDelete]_vars

InitRouter ==
  /\ query \in Queries
  /\ strategy = NoStrategy
  /\ ChatStart /\ ~gcp /\ EmbedStart /\ IndexStart /\ VideoStart /\ SearchStart /\ PacingStart
SpecRouter == InitRouter /\ [][NextRouter]_vars

\* The corpus a search finds: every scene has its embedding; one scene
\* document may be gone (its embedding dangles), one video document may be
\* gone (its scenes are orphans).
InitSearch ==
  /\ \E missingScene \in SearchSceneIds \cup {NoScene}, missingVideo \in SearchVideoIds \cup {0} :
       /\ videos = [v \in SearchVideoIds |-> IF v = missingVideo THEN NoDoc ELSE VideoDoc(v)]
       /\ scenes = [id \in SearchSceneIds |->
                      IF id = missingScene THEN NoDoc ELSE StoredScene(id)]
  /\ embeddings = [id \in {EmbeddingId(sceneId) : sceneId \in SearchSceneIds} |->
                     StoredEmbedding(id[2])]
  /\ lastOp = NoOp
  /\ vpc = [v \in SearchVideoIds |-> "done"]
  /\ vnext = [v \in SearchVideoIds |-> 1]
  /\ vresults = [v \in SearchVideoIds |-> {}]
  /\ vcampaign = [v \in SearchVideoIds |-> NoCampaign]
  /\ dpc = [v \in SearchVideoIds |-> "idle"]
  /\ dsnap = [v \in SearchVideoIds |-> <<>>]
  /\ dnext = [v \in SearchVideoIds |-> 1]
  /\ deleted = [v \in SearchVideoIds |-> "none"]
  /\ SearchStart /\ PacingStart
  /\ ChatStart /\ ~gcp /\ EmbedStart /\ RouterStart
SpecSearch == InitSearch /\ [][NextSearch]_vars

(***************************************************************************)
(* Properties of the chat turn.                                            *)
(***************************************************************************)
MaxIterationsError == "Maximum function call iterations reached"

\* C1: a turn in which every model request is answered with a function call
\* (that is executed) fails with the maximum-iterations error after exactly
\* maxIterations requests and maxIterations executions; no turn ever issues
\* more than maxIterations requests; sendMessage ends with that error.
C1_MaxIterations ==
  /\ \A t \in Turns : requests[t] <= maxIterations /\ calls[t] <= maxIterations
  /\ returned.requests <= maxIterations
  /\ returned.result = MaxIterationsError =>
       /\ returned.requests = maxIterations
       /\ returned.calls = maxIterations
       /\ returned.fed = maxIterations
  /\ (returned.requests >= 1 /\ returned.fed = returned.requests) =>
       returned.result = MaxIterationsError

C1_Witness == returned.result = MaxIterationsError /\ returned.requests = 5

\* C2: a sendMessage that succeeds with no other turn in flight on its
\* conversation leaves stored the list the conversation had before the call,
\* then the user message with the given text, then the assistant message with
\* the model's final text.
C2_AppendsPair ==
  [][\A t \in Turns :
       (tpc[t] # "done" /\ tpc'[t] = "done" /\ returned'.result = "ok" /\ ~returned'.overlap)
       => StoredIn(inMemoryConversations', heap', chats', tconv[t])
            = tbefore[t] \o <<UserMsg(t, ttext[t]), AssistantMsg(t, tresp[t], tctx[t])>>]_vars

C2_Witness ==
  /\ returned.result = "ok"
  /\ ~returned.overlap
  /\ \E c \in ConvIds :
       /\ Len(StoredMessages(c)) = 4
       /\ StoredMessages(c)[3].content = TextOf(2)
       /\ StoredMessages(c)[4].content \in ModelTexts

\* Turn t is about to write; the stored list is what t read followed by the
\* pair of another turn, which read the same list and has written.
OverwritesAnother(t) ==
  LET mine == heap[tref[t]]
      stored == chats[tconv[t]].messages
  IN /\ tpc[t] = "updating"
     /\ chats[tconv[t]].exists
     /\ Len(stored) = Len(mine)
     /\ SubSeq(stored, 1, Len(stored) - 2) = SubSeq(mine, 1, Len(mine) - 2)
     /\ stored[Len(stored)].id[1] # t

\* C18: in Firestore mode, when two turns on one conversation both read it
\* before either writes, both return and the later write leaves stored the
\* list the later writer read followed by its own pair: the list is as long
\* as after the first write and the earlier writer's pair is gone.
C18_LastWriteWins ==
  [][\A t \in Turns :
       (OverwritesAnother(t) /\ tpc'[t] = "done" /\ chats' # chats)
       => LET c == tconv[t]
              earlier == chats[c].messages[Len(chats[c].messages)].id[1]
          IN /\ returned'.result = "ok"
             /\ chats'[c].messages =
                  SubSeq(heap[tref[t]], 1, Len(heap[tref[t]]) - 2)
                    \o <<UserMsg(t, ttext[t]), AssistantMsg(t, tresp[t], tctx[t])>>
             /\ Len(chats'[c].messages) = Len(chats[c].messages)
             /\ \A i \in 1..Len(chats'[c].messages) :
                  chats'[c].messages[i].id[1] # earlier]_vars

\* The earlier writer has returned and its pair is stored; the later writer,
\* which read the empty list, holds its own pair and its update is in flight.
C18_Witness ==
  /\ ~useInMemoryStore
  /\ tpc[1] = "done"
  /\ OverwritesAnother(2)
  /\ Len(chats[tconv[2]].messages) = 2
  /\ chats[tconv[2]].messages[1].id = <<1, "u">>
  /\ heap[tref[2]][1].id = <<2, "u">>

Alternates(msgs) ==
  /\ Len(msgs) % 2 = 0
  /\ \A i \in 1..Len(msgs) : msgs[i].role = IF i % 2 = 1 THEN "user" ELSE "assistant"

\* C3: the message list of every stored conversation, in Firestore or in
\* memory, has even length and alternates user, assistant from a user message.
C3_Alternation ==
  \A c \in ConvIds :
    /\ chats[c].exists => Alternates(chats[c].messages)
    /\ inMemoryConversations[c] # None => Alternates(heap[inMemoryConversations[c]])

C3_Witness ==
  /\ gcp
  /\ useInMemoryStore
  /\ returned.result = "ok"
  /\ returned.overlap
  /\ \E c \in ConvIds : Len(StoredMessages(c)) = 4

\* C4: with the language model backend unavailable (no model, or the first
\* generateContent request fails) sendMessage does not raise: the turn ends
\* with an assistant message.
C4_FallbackMessage ==
  /\ returned.result # "Vertex AI not initialized"
  /\ ~(returned.result = "generateContent failed" /\ returned.requests = 1)

\* C5: a call of a function that is not declared ends the turn with the
\* unknown-function error at that iteration: its response is not fed back and
\* no model request follows it.
C5_UnknownFunction ==
  /\ returned.result = "Unknown function" =>
       /\ returned.lastCall \notin DeclaredTools
       /\ returned.requests = returned.calls
       /\ returned.fed = returned.calls - 1
  /\ returned.lastCall \in UndeclaredTools => returned.result = "Unknown function"
  /\ \A t \in Turns :
       tpc[t] \in {"requesting", "persisting", "updating"} =>
         pending[t].name \in DeclaredTools \cup {""}

C5_Witness ==
  /\ returned.result = "Unknown function"
  /\ returned.requests = 3
  /\ returned.fed = 2

(***************************************************************************)
(* Properties of the embedding service.                                    *)
(***************************************************************************)
EmbeddingReturned ==
  \/ succeeded /\ eresult \in ApiVectors
  \/ ~succeeded /\ eresult = generateFallbackEmbedding(etext)

\* C6: every generateEmbedding call returns a vector, whatever the upstream
\* answers: it sends at most maxRetries + 1 requests, returns the fallback
\* embedding of its text when none of them brought a vector, and it does
\* return.
C6_AlwaysAVector ==
  /\ [](upstream <= maxRetries + 1)
  /\ [](epc = "done" => EmbeddingReturned)
  /\ (epc \notin {"idle", "done"}) ~> (epc = "done")

C6_Witness ==
  /\ epc = "done"
  /\ upstream = 4
  /\ ~succeeded
  /\ etext = <<"a", " ", "b">>
  /\ eresult = generateFallbackEmbedding(<<"a", " ", "b">>)

\* The step is a catch of a rate-limit error (it counts it).
RateLimitCaught == consecutiveRateLimitErrors' = consecutiveRateLimitErrors + 1

\* C19, as stated: every upstream failure is retried, the call falls back
\* to the local embedding only when its retries are used up.
C19_RetriesEveryFailure ==
  [][(epc \in {"auth", "fetching"} /\ epc' = "done" /\ ~succeeded')
       => retryCount = maxRetries]_vars

\* C19, amended: only a rate-limit failure is retried, after a backoff of
\* 3 s, 6 s, 12 s, at most maxRetries times; every other failure, and the
\* rate-limit failure after the last retry, ends the call at once with the
\* local fallback embedding.
C19_RetriesRateLimitOnly ==
  /\ [][(epc \in {"auth", "fetching"} /\ epc' = "backoff")
          => /\ RateLimitCaught
             /\ retryCount < maxRetries
             /\ backoffMs(retryCount) = <<3000, 6000, 12000>>[retryCount + 1]]_vars
  /\ [][(epc \in {"auth", "fetching"} /\ epc' = "done" /\ ~succeeded')
          => /\ eresult' = generateFallbackEmbedding(etext)
             /\ ~RateLimitCaught \/ retryCount = maxRetries]_vars
  /\ [][(epc \in {"auth", "fetching"} /\ RateLimitCaught /\ retryCount < maxRetries)
          => epc' = "backoff"]_vars

C19_Witness ==
  /\ epc = "backoff"
  /\ retryCount = 2
  /\ backoffMs(retryCount) = 12000
  /\ consecutiveRateLimitErrors = 3
  /\ upstream = 3

\* C16: all the vectors stored in the embeddings collection have one length.
C16_OneDimension ==
  \A i, j \in DOMAIN embeddings :
    (embeddings[i].exists /\ embeddings[j].exists)
      => embeddings[i].embedding.length = embeddings[j].embedding.length

\* C8: a storeEmbedding call that succeeds leaves exactly one entry for its
\* scene, under the id 'emb_' + sceneId, with the vector and the metadata of
\* that call; every other entry is as it was. No scene ever has an entry
\* under another id.
C8_StoreIdempotent ==
  /\ [](\A id \in DOMAIN embeddings :
          embeddings[id].exists => id = <<"emb", embeddings[id].sceneId>>)
  /\ [][(lastOp'.op = "storeEmbedding" /\ lastOp'.ok) =>
          LET sceneId == lastOp'.sceneId
              entries == {id \in DOMAIN embeddings' :
                            embeddings'[id].exists /\ embeddings'[id].sceneId = sceneId}
          IN /\ entries = {<<"emb", sceneId>>}
             /\ embeddings'[<<"emb", sceneId>>].embedding = lastOp'.embedding
             /\ embeddings'[<<"emb", sceneId>>].metadata = lastOp'.metadata
             /\ \A id \in DOMAIN embeddings \ {<<"emb", sceneId>>} :
                  embeddings'[id] = embeddings[id]]_vars

C8_Witness ==
  /\ lastOp.op = "storeEmbedding"
  /\ lastOp.ok
  /\ lastOp.replaced
  /\ lastOp.sceneId = SceneId(1, 1)
  /\ embeddings[<<"emb", SceneId(1, 1)>>].embedding = Vec(1, 1)
  /\ embeddings[<<"emb", SceneId(1, 1)>>].metadata.campaignId = "c2"
  /\ embeddings[<<"emb", SceneId(1, 2)>>].exists
  /\ embeddings[<<"emb", SceneId(1, 2)>>].embedding = Vec(1, 0)

\* The entries a search with lastOp's arguments is about: those of the
\* campaign (all without one) whose similarity reaches minSimilarity.
Qualifying ==
  {id \in DOMAIN embeddings :
     /\ embeddings[id].exists
     /\ lastOp.campaignId # NoCampaign => embeddings[id].metadata.campaignId = lastOp.campaignId
     /\ ~SimLess(cosineSimilarity(lastOp.queryEmbedding, embeddings[id].embedding),
                 lastOp.minSimilarity)}

\* C9: a search that succeeds returns the top `limit` qualifying entries: as
\* many as qualify up to limit, each one a qualifying entry with its
\* similarity, none twice, in non-increasing similarity, and no qualifying
\* entry left out is strictly more similar than one returned.
C9_TopLimit ==
  (lastOp.op = "searchSimilarEmbeddings" /\ lastOp.ok) =>
    LET results == lastOp.results
        Sim(id) == cosineSimilarity(lastOp.queryEmbedding, embeddings[id].embedding)
        returned_ids == {<<"emb", results[i].sceneId>> : i \in 1..Len(results)}
    IN /\ Len(results) <= lastOp.limit
       /\ Len(results) = IF Cardinality(Qualifying) < lastOp.limit
                         THEN Cardinality(Qualifying) ELSE lastOp.limit
       /\ returned_ids \subseteq Qualifying
       /\ Cardinality(returned_ids) = Len(results)
       /\ \A i \in 1..Len(results) :
            results[i].similarity = Sim(<<"emb", results[i].sceneId>>)
       /\ \A i \in 1..(Len(results) - 1) :
            ~SimLess(results[i].similarity, results[i + 1].similarity)
       /\ \A id \in Qualifying \ returned_ids : \A i \in 1..Len(results) :
            ~SimLess(results[i].similarity, Sim(id))

C9_Witness ==
  /\ lastOp.op = "searchSimilarEmbeddings"
  /\ lastOp.ok
  /\ lastOp.limit = 1
  /\ lastOp.campaignId = "c1"
  /\ lastOp.minSimilarity = [n |-> 1, d |-> 4]
  /\ Cardinality(Qualifying) = 2
  /\ Len(lastOp.results) = 1
  /\ lastOp.results[1].sceneId = SceneId(1, 2)
  /\ \E id \in Qualifying : SimLess(cosineSimilarity(lastOp.queryEmbedding, embeddings[id].embedding),
                                    lastOp.results[1].similarity)

\* The stored embeddings a search with this campaign filter scans.
InScope(campaignId) ==
  {id \in DOMAIN embeddings :
     /\ embeddings[id].exists
     /\ campaignId # NoCampaign => embeddings[id].metadata.campaignId = campaignId}

\* C15: cosineSimilarity throws for two vectors of different lengths, and a
\* searchSimilarEmbeddings call whose scope holds a stored vector of another
\* length than the query vector's fails and returns no result.
C15_LengthMismatch ==
  /\ \A a \in QueryVectors, b \in StoredVectors : a.length # b.length => LengthMismatch(a, b)
  /\ (/\ lastOp.op = "searchSimilarEmbeddings"
      /\ \E id \in InScope(lastOp.campaignId) :
           embeddings[id].embedding.length # lastOp.queryEmbedding.length)
     => (~lastOp.ok /\ lastOp.results = <<>>)

C15_Witness ==
  /\ lastOp.op = "searchSimilarEmbeddings"
  /\ lastOp.campaignId = "c1"
  /\ lastOp.queryEmbedding.length = 3
  /\ ~lastOp.ok
  /\ lastOp.results = <<>>
  /\ Cardinality(InScope("c1")) = 1
  /\ Cardinality(InScope(NoCampaign)) = 2

(***************************************************************************)
(* Properties of the video service.                                        *)
(***************************************************************************)
\* C7: once deleteVideo has returned for a video, no scene document of the
\* video and no embedding document of one of its scenes is left, and no
\* search made from then on returns one of its scenes.
C7_DeleteCascade ==
  /\ [](\A v \in VideoIds : deleted[v] = "ok" =>
          /\ \A id \in DOMAIN scenes : scenes[id].exists => scenes[id].videoId # v
          /\ \A id \in DOMAIN embeddings :
               embeddings[id].exists => embeddings[id].sceneId[1] # v)
  /\ [][(lastOp'.op = "searchSimilarEmbeddings" /\ lastOp' # lastOp) =>
          \A v \in VideoIds : deleted[v] = "ok" =>
            \A i \in 1..Len(lastOp'.results) : lastOp'.results[i].sceneId[1] # v]_vars

(***************************************************************************)
(* Properties of the query router.                                         *)
(***************************************************************************)
\* The whitespace-separated tokens of a query: its maximal runs of
\* characters that are not whitespace.
TokenCount(q) ==
  Cardinality({i \in 1..Len(q) : ~IsSpace(q[i]) /\ (i = 1 \/ IsSpace(q[i - 1]))})

Contains(q, kw) ==
  \E i \in 0..(Len(q) - Len(kw)) : \A j \in 1..Len(kw) : LowerChar(q[i + j]) = kw[j]

\* C10: the strategy of a query is 'filtered' when it contains 'exact',
\* 'id:', 'campaign:' or 'product:'; otherwise 'semantic' when it contains a
\* semantic keyword or has more than 3 whitespace-separated tokens; otherwise
\* 'general'. The four fixtures get filtered, filtered, semantic, general.
C10_RouterRules ==
  strategy # NoStrategy =>
    /\ strategy.type =
         IF \E kw \in filterKeywords : Contains(query, kw) THEN "filtered"
         ELSE IF (\E kw \in semanticKeywords : Contains(query, kw)) \/ TokenCount(query) > 3
         THEN "semantic"
         ELSE "general"
    /\ query = <<"c", "a", "m", "p", "a", "i", "g", "n", ":", "1", "2", "3">> => strategy.type = "filtered"
    /\ query = <<"e", "x", "a", "c", "t", " ", "i", "d", ":", "x", "y", "z">> => strategy.type = "filtered"
    /\ query = <<"h", "a", "p", "p", "y", " ", "m", "o", "m", "e", "n", "t", "s", " ", "w", "i", "t", "h", " ", "p", "e", "o", "p", "l", "e", " ", "s", "m", "i", "l", "i", "n", "g">> => strategy.type = "semantic"
    /\ query = <<"c", "a", "r">> => strategy.type = "general"

(***************************************************************************)
(* Properties of the search.                                               *)
(***************************************************************************)
\* The results of the call that returned.
Results == IF searched = NoSearch THEN <<>> ELSE searched.results

\* C11: a queryScenes call classified 'filtered' that is given no campaignId
\* and no filters in its options returns, for the query 'campaign:c2', only
\* scenes whose campaignId is c2, and for the query 'product:p1', only
\* scenes whose analysis.product is p1.
C11_TokenFilters ==
  (/\ searched.op = "queryScenes"
   /\ searched.ok
   /\ searched.strategy.type = "filtered"
   /\ searched.options.campaignId = NoCampaign
   /\ searched.options.filters = NoFilters)
  => /\ searched.query = <<"c", "a", "m", "p", "a", "i", "g", "n", ":", "c", "2">>
          => \A i \in 1..Len(Results) : Results[i].scene.campaignId = "c2"
     /\ searched.query = <<"p", "r", "o", "d", "u", "c", "t", ":", "p", "1">>
          => \A i \in 1..Len(Results) : Results[i].scene.analysis.product = <<"p", "1">>

\* C12: the list a call to queryScenes returns is non-increasing in score,
\* under the vector and the traditional strategy alike: no result has a
\* score below the score of the result after it.
C12_NonIncreasing ==
  searched # NoSearch =>
    \A i \in 1..(Len(Results) - 1) : ~SimLess(Results[i].score, Results[i + 1].score)

\* A traditional search returned a scene ahead of one the store query had
\* found before it, because its score is higher.
C12_Witness ==
  /\ searched.op = "queryScenes"
  /\ searched.ok
  /\ ~searched.strategy.useVectorSearch
  /\ \E i \in 1..(Len(Results) - 1) :
       /\ SimLess(Results[i + 1].score, Results[i].score)
       /\ Results[i].scene.videoId > Results[i + 1].scene.videoId

\* C13: in a conversation created with a campaignId, the context retrieval
\* and every search_scenes tool call return only scenes of the
\* conversation's campaign, whatever the arguments of the tool call.
C13_ConversationScope ==
  (/\ searched.op \in {"retrieveContext", "search_scenes"}
   /\ searched.conversationCampaign # NoCampaign)
  => \A i \in 1..Len(Results) : Results[i].scene.campaignId = searched.conversationCampaign

\* C14: for every existing source scene, findSimilarScenes(sceneId, limit)
\* searches by vector similarity with the embedding of the scene's composed
\* text, never by the 'filtered' store query; its result does not contain
\* the source scene and has at most `limit` entries.
C14_SimilarByVector ==
  (searched.op = "findSimilarScenes" /\ searched.ok)
  => /\ searched.strategy.useVectorSearch
     /\ \A i \in 1..Len(Results) : Results[i].scene.id # searched.sceneId
     /\ Len(Results) <= searched.options.limit

\* The reads of the document store that threw during the call: the
\* embeddings scan or the scenes query, scene fetches, video fetches.
FailedStoreReads == {read \in searched.failed : read[1] \in {"scan", "scene", "video"}}

\* C17: when a read of the document store throws during queryScenes (the
\* embeddings scan, the fetch of a scene document, the fetch of a parent
\* video) the call fails with an error; it does not return a result list.
C17_OutagePropagates ==
  (searched.op = "queryScenes" /\ FailedStoreReads # {}) => ~searched.ok

\* The candidates of the call that returned: the hits of the index for its
\* query vector under the vector strategy, the scene documents that match
\* its equality filters under the traditional one.
Hits ==
  SimilarEmbeddings(embeddings, searched.env.queryEmbedding,
                    IF searched.options.limit # NoLimit THEN searched.options.limit ELSE 20,
                    searched.options.campaignId, [n |-> 0, d |-> 1]).results

Matching(id) ==
  /\ searched.options.campaignId # NoCampaign
       => scenes[id].campaignId = searched.options.campaignId
  /\ searched.options.filters.product # NoProduct
       => scenes[id].analysis.product = searched.options.filters.product

Confident(id) ==
  scenes[id].analysis.confidence >= searched.options.filters.minConfidence

\* The parent video of the scene is there, and reading it and signing the
\* scene's URLs did not throw.
Whole(id) ==
  /\ videos[id[1]].exists
  /\ VideoRead(id[1]) \notin searched.env.down
  /\ UrlRead(id) \notin searched.env.down

Returned(id) == \E i \in 1..Len(Results) : Results[i].scene.id = id

\* C20: a dangling reference is skipped and is not fatal. A call to
\* queryScenes whose scan of the store did not throw returns; every result
\* is of a scene document and a video document that exist; a vector-search
\* hit is in the result if and only if its scene document exists (and was
\* read), its parent video exists (and was read) and it passes the filters;
\* under the traditional strategy without a limit the same holds of every
\* scene that matches the options.
C20_DanglingSkipped ==
  searched.op \in {"queryScenes", "retrieveContext", "search_scenes"} =>
    /\ searched.ok <=> ScanRead \notin searched.env.down
    /\ \A i \in 1..Len(Results) :
         /\ scenes[Results[i].scene.id].exists
         /\ videos[Results[i].video.id].exists
         /\ Results[i].video.id = Results[i].scene.videoId
    /\ (searched.ok /\ searched.strategy.useVectorSearch) =>
         \A k \in 1..Len(Hits) :
           Returned(Hits[k].sceneId)
             <=> /\ scenes[Hits[k].sceneId].exists
                 /\ SceneRead(Hits[k].sceneId) \notin searched.env.down
                 /\ Whole(Hits[k].sceneId)
                 /\ Confident(Hits[k].sceneId)
    /\ (searched.ok /\ ~searched.strategy.useVectorSearch /\ searched.options.limit = NoLimit) =>
         \A id \in DOMAIN scenes :
           Returned(id)
             <=> scenes[id].exists /\ Matching(id) /\ Whole(id) /\ Confident(id)

\* A vector search met a hit without a scene document and a scene without
\* its video, no read threw, and it returned the scenes that are whole.
C20_Witness ==
  /\ searched.op = "queryScenes"
  /\ searched.ok
  /\ searched.strategy.useVectorSearch
  /\ searched.env.down = {}
  /\ \E k \in 1..Len(Hits) : ~scenes[Hits[k].sceneId].exists
  /\ \E k \in 1..Len(Hits) :
       scenes[Hits[k].sceneId].exists /\ ~videos[Hits[k].sceneId[1]].exists
  /\ Len(Results) >= 1

(***************************************************************************)
(* Properties of the rate limiter.                                         *)
(***************************************************************************)
\* The delay is `ms` milliseconds.
DelayIs(ms) == minDelayBetweenRequests.n = ms * minDelayBetweenRequests.d

\* C21: the delay between requests is never below 1000 ms nor above
\* 10000 ms, however the calls in flight interleave. A rate-limit error
\* sets it to min(10000, 2 * previous) and counts one more consecutive
\* error; a success sets it to max(1000, 0.9 * previous) and resets the
\* count to 0; any other error leaves the delay and the count as they were.
C21_DelayWithinBounds ==
  /\ MinDelayFloor * minDelayBetweenRequests.d <= minDelayBetweenRequests.n
  /\ minDelayBetweenRequests.n <= MinDelayCeiling * minDelayBetweenRequests.d
  /\ settled.kind = "rateLimit" =>
       /\ IF 2 * settled.delay.n >= MinDelayCeiling * settled.delay.d
          THEN DelayIs(MinDelayCeiling)
          ELSE minDelayBetweenRequests.n * settled.delay.d
                 = 2 * settled.delay.n * minDelayBetweenRequests.d
       /\ consecutiveRateLimitErrors = settled.errors + 1
  /\ settled.kind = "success" =>
       /\ IF 9 * settled.delay.n <= MinDelayFloor * 10 * settled.delay.d
          THEN DelayIs(MinDelayFloor)
          ELSE minDelayBetweenRequests.n * 10 * settled.delay.d
                 = 9 * settled.delay.n * minDelayBetweenRequests.d
       /\ consecutiveRateLimitErrors = 0
  /\ settled.kind = "error" =>
       /\ minDelayBetweenRequests = settled.delay
       /\ consecutiveRateLimitErrors = settled.errors

\* The fourth rate-limit error in a row, of calls in flight together, found
\* the delay at 8000 ms and left it at the ceiling.
C21_Witness ==
  /\ settled.kind = "rateLimit"
  /\ settled.delay = [n |-> 8000, d |-> 1]
  /\ DelayIs(MinDelayCeiling)
  /\ consecutiveRateLimitErrors = 4

\* C22: under every interleaving of the generateEmbedding calls of one
\* service, any two requests to the embeddings endpoint are sent at least
\* the delay between requests apart (the delay at the time of the later
\* one).
C22_PacedAcrossCallers ==
  \A i, j \in 1..Len(sent) :
    i < j => (sent[j].at - sent[i].at) * sent[j].minDelay.d >= sent[j].minDelay.n

\* The words of a query: its maximal runs of characters that are not
\* whitespace, each by the position it starts at.
WordStarts(q) == {i \in 1..Len(q) : ~IsSpace(q[i]) /\ (i = 1 \/ IsSpace(q[i - 1]))}
WordAt(q, i) ==
  LET ends == {k \in i..Len(q) : k = Len(q) \/ IsSpace(q[k + 1])}
  IN SubSeq(q, i, CHOOSE k \in ends : \A m \in ends : k <= m)

Lower(str) == [i \in 1..Len(str) |-> LowerChar(str[i])]
Within(part, whole) ==
  \E i \in 0..(Len(whole) - Len(part)) : \A j \in 1..Len(part) : whole[i + j] = part[j]

\* The lexical score of a scene for a query, in hundredths.
LexicalScore(scene, q) ==
  scene.analysis.confidence * 5
    + (IF Within(Lower(q), Lower(scene.description)) THEN 20 ELSE 0)
    + (IF Within(Lower(q), Lower(scene.transcript)) THEN 15 ELSE 0)
    + 10 * Cardinality({i \in WordStarts(q) :
                          \E e \in 1..Len(scene.analysis.visualElements) :
                            Within(Lower(WordAt(q, i)), Lower(scene.analysis.visualElements[e]))})

\* C23: the score of a result is the vector similarity of its scene when the
\* search was by vector; otherwise it is min(1, 0.5 * confidence + 0.2 if
\* the query is within the description + 0.15 if it is within the
\* transcript + 0.1 for each word of the query within some visual element),
\* which is in [0, 1].
C23_Score ==
  searched.op \in {"queryScenes", "retrieveContext", "search_scenes"} =>
    \A i \in 1..Len(Results) :
      IF searched.strategy.useVectorSearch
      THEN \E k \in 1..Len(Hits) :
             /\ Hits[k].sceneId = Results[i].scene.id
             /\ Results[i].score = Hits[k].similarity
      ELSE /\ Results[i].score.d = 10000
           /\ Results[i].score.n =
                IF LexicalScore(Results[i].scene, searched.query) < 100
                THEN LexicalScore(Results[i].scene, searched.query) ELSE 100
           /\ Results[i].score.n \in 0..100

\* The stored embeddings the vector search of the call looks at: those of
\* its campaign, when it has one.
InScopeOfSearch(e) ==
  /\ embeddings[e].exists
  /\ searched.options.campaignId # NoCampaign
       => embeddings[e].metadata.campaignId = searched.options.campaignId

StoreOf(c) == <<chats[c], inMemoryConversations[c], StoredMessages(c)>>

Writing(t) == tpc[t] \in {"persisting", "updating"}

\* C25: a sendMessage that fails (conversation not found, generation error,
\* unknown function, iteration bound) has stored nothing: the step in which a
\* turn ends with an error changes no conversation in either store, a turn
\* that has begun to write never ends with an error, and every change of a
\* stored conversation is the write of a turn that does not fail, or a
\* creation, or a deletion.
C25_FailedTurnStoresNothing ==
  [][/\ \A t \in Turns :
          (tpc[t] # "done" /\ tpc'[t] = "done" /\ returned'.result # "ok")
          => /\ ~Writing(t)
             /\ \A c \in ConvIds : StoreOf(c)' = StoreOf(c)
     /\ \A t \in Turns : (Writing(t) /\ tpc'[t] = "done") => returned'.result = "ok"
     /\ \A c \in ConvIds :
          StoreOf(c)' # StoreOf(c)
          => \/ nextConv' # nextConv
             \/ chats'[c] = NoDoc /\ chats[c] # NoDoc
             \/ inMemoryConversations'[c] = None /\ inMemoryConversations[c] # None
             \/ \E t \in Turns : Writing(t) /\ tconv[t] = c /\ tpc'[t] # tpc[t]
    ]_vars

C25_Witness ==
  /\ returned.result \in {"Unknown function", MaxIterationsError, "generateContent failed"}
  /\ \E c \in ConvIds :
       /\ Len(StoredMessages(c)) = 2
       /\ StoredMessages(c)[2].role = "assistant"
  /\ \A t \in Turns : tpc[t] = "done"

\* getConversation(c) returns a conversation (the Firestore read answering):
\* the map alone is looked at in in-memory mode, the document otherwise.
Retrievable(c) ==
  IF InMemoryMode THEN inMemoryConversations[c] # None ELSE chats[c].exists

\* C26: a conversation that getConversation returns keeps being returned
\* until it is deleted (its document or its map entry is removed), whatever
\* happens to other conversations, and useInMemoryStore never goes back to
\* false.
C26_StaysRetrievable ==
  [][/\ useInMemoryStore => useInMemoryStore'
     /\ \A c \in ConvIds :
          (Retrievable(c) /\ ~Retrievable(c)')
          => \/ inMemoryConversations[c] # None /\ inMemoryConversations'[c] = None
             \/ chats[c].exists /\ ~chats'[c].exists
    ]_vars

(***************************************************************************)
(* Properties of the video pipeline.                                       *)
(***************************************************************************)
StageFlags == {"metadata", "transcription", "sceneDetection", "sceneAnalysis", "embeddings"}

\* C27: a progress flag that is true in the video document stays true as
\* long as the document is there, and a video whose status is 'completed'
\* has its five flags true.
C27_ProgressMonotonic ==
  [][\A v \in VideoIds :
       (videos[v].exists /\ videos'[v].exists)
       => /\ videos[v].progress \subseteq videos'[v].progress
          /\ videos'[v].status = "completed" => videos'[v].progress = StageFlags
    ]_vars

\* Something of video v is stored: its document, a scene document of it or
\* the embedding document of one of its scenes.
LeftBehind(v) ==
  \/ videos[v].exists
  \/ \E id \in DOMAIN scenes : scenes[id].exists /\ scenes[id].videoId = v
  \/ \E id \in DOMAIN embeddings : embeddings[id].exists /\ embeddings[id].sceneId[1] = v

\* C28: when a deleteVideo called during the processVideo of the same video
\* has returned and processVideo has ended too, nothing of the video is
\* stored.
C28_NothingLeftBehind ==
  \A v \in VideoIds : (deleted[v] = "ok" /\ vpc[v] = "done") => ~LeftBehind(v)

(***************************************************************************)
(* Properties of the context retrieval.                                    *)
(***************************************************************************)
\* The context a turn gets from the queryScenes call that settled last.
ContextOf(call) == IF call.ok THEN ScenesOfResults(call.results) ELSE <<>>

LastOf(msgs) == msgs[Len(msgs)]

StageOrder ==
  <<"metadata", "transcription", "sceneDetection", "sceneAnalysis", "embeddings",
    "embeddingIds", "completing", "done">>

FollowsInOrder(from, to) ==
  \E i \in 1..(Len(StageOrder) - 1) : StageOrder[i] = from /\ StageOrder[i + 1] = to

\* Every scene of video v is stored with its embeddingId, and the embedding
\* document is there.
AllScenesEmbedded(v) ==
  \A n \in SceneNumbers :
    /\ scenes[SceneId(v, n)].exists
    /\ scenes[SceneId(v, n)].embeddingId = EmbeddingId(SceneId(v, n))
    /\ embeddings[EmbeddingId(SceneId(v, n))].exists

\* C30, as stated: a processVideo that has ended leaves the video 'completed'
\* or 'failed'.
C30_EndsCompletedOrFailed ==
  \A v \in VideoIds :
    (vpc[v] = "done" /\ videos[v].exists) => videos[v].status \in {"completed", "failed"}

\* C30, amended: a created video is 'processing'; processVideo goes through
\* its stages in their order or to its catch block; the status becomes
\* 'completed' only at the end of a run that went through every stage, with
\* every scene holding its embeddingId; a run that failed leaves the status
\* 'failed' with an errorMessage, or 'processing' when the update of the
\* catch block fails too, and never 'completed'.
C30_StatusFlow ==
  [][\A v \in VideoIds :
       /\ (~videos[v].exists /\ videos'[v].exists) => videos'[v].status = "processing"
       /\ vpc'[v] # vpc[v]
          => \/ vpc[v] = "none" /\ vpc'[v] \in {"metadata", "done"}
             \/ FollowsInOrder(vpc[v], vpc'[v])
             \/ vpc[v] \notin {"none", "done"} /\ vpc'[v] = "failing"
             \/ vpc[v] = "failing" /\ vpc'[v] = "done"
       /\ (videos[v].exists /\ videos'[v].exists /\ videos'[v].status # videos[v].status)
          => /\ videos[v].status = "processing"
             /\ videos'[v].status = "completed"
                  => vpc[v] = "completing" /\ vpc'[v] = "done" /\ AllScenesEmbedded(v)
             /\ videos'[v].status = "failed"
                  => /\ vpc[v] = "failing"
                     /\ "errorMessage" \in DOMAIN videos'[v]
             /\ videos'[v].status \in {"completed", "failed"}
       /\ (vpc[v] = "failing" /\ vpc'[v] = "done" /\ videos'[v].exists)
          => videos'[v].status \in {"failed", "processing"}
    ]_vars

C30_Witness ==
  \E v \in VideoIds :
    /\ vpc[v] = "done"
    /\ videos[v].exists
    /\ videos[v].status = "failed"
    /\ "errorMessage" \in DOMAIN videos[v]
    /\ videos[v].progress = {"sceneAnalysis"}

====
